---------------------------- MODULE Spec2Model ----------------------------
(***************************************************************************)
(* State-machine model of mpcr: the file lock (lock.rs), the atomic        *)
(* session store and the coordination operations on _session.json          *)
(* (session.rs), and the lock sub-commands of the CLI (main.rs).           *)
(*                                                                         *)
(* Every process is one OS process running one mpcr invocation at a time.  *)
(* Each system call on the shared session directory is one atomic step;    *)
(* computation on a process's own memory is folded into the step that      *)
(* reads its input.                                                        *)
(***************************************************************************)
EXTENDS Integers, Sequences, FiniteSets, TLC

VARIABLES
    lockFile,     \* _session.json.lock : [exists, body]
    sessionFile,  \* _session.json      : [st, doc]
    tmpFile,      \* _session.json.tmp.<owner>, one per owner token
    reportFiles,  \* report file name -> contents (<<>> when absent)
    pc,           \* position of each process inside its invocation
    op,           \* parameters of the current (or last) invocation
    mem,          \* the SessionFile value a process holds in memory
    guard,        \* LockGuard.lock_file is Some
    attempt,      \* acquire_lock: attempt
    wait_ms,      \* acquire_lock: wait_ms
    stage,        \* finalize_review: step 1 or step 3
    windows,      \* the build is cfg(windows)
    result,       \* outcome of the current (or last) invocation
    ret,          \* identifiers or report name the invocation computed
    todo,         \* invocations that may still be started
    shadow,       \* history: the committed invocations applied one by one
    wrote,        \* history: the invocation has replaced _session.json
    pre           \* history: _session.json when the last invocation started

fsvars   == <<lockFile, sessionFile, tmpFile, reportFiles>>
hist     == <<shadow, wrote, pre>>
vars     == <<lockFile, sessionFile, tmpFile, reportFiles, pc, op, mem,
              guard, attempt, wait_ms, stage, windows, result, ret, todo,
              shadow, wrote, pre>>

----------------------------------------------------------------------------
(* Bounds of the model.                                                    *)

\* invocations in one run, all processes together
MaxOps == 4

\* commands of the reviewers that join or leave a session
MaxJoinOps == 4

\* invocations in one run of the writer and the waiter together
MaxWaitOps == 3

\* largest --max-retries of the acquirer that meets a held lock
MaxBackoffRetries == 9

\* calls in one run of the acquirer and the holder together
MaxBackoffOps == 4

\* longest run of one character in a target ref given to sanitize_ref
MaxRefPad == 65

\* calls in one run of the explicit release and the two acquirers
MaxDropOps == 4

\* calls in one run of the two registrations and what precedes them
MaxMeetOps == 4

\* calls in one run of three processes of one reviewer
MaxSameOps == 3

\* calls in one run of a finalize and the updates that cut in
MaxLateOps == 3

\* invocations in one run that ends with `reports`
MaxReportOps == 4

\* largest --max-retries a caller of `mpcr lock acquire` passes
MaxRetries == 2

\* invocations in one run of the single-process specification
MaxSeqOps == 3

\* calls in one run of the two-acquirer race
MaxRaceOps == 5

\* calls in one run of the timeout-and-retry scenario
MaxRetryOps == 5

Procs == {"p1", "p2", "p3"}

----------------------------------------------------------------------------
(* Identifiers: strings, modelled as sequences of characters.              *)

None == <<>>
Some(x) == <<x>>

Digits == {"0", "1", "2", "3", "4", "5", "6", "7", "8", "9"}
Letters == {"a", "b", "c", "d", "e", "f", "g", "h", "i", "j", "k", "l", "m",
            "n", "o", "p", "q", "r", "s", "t", "u", "v", "w", "x", "y", "z",
            "A", "B", "C", "D", "E", "F", "G", "H", "I", "J", "K", "L", "M",
            "N", "O", "P", "Q", "R", "S", "T", "U", "V", "W", "X", "Y", "Z"}
Whitespace == {" ", "\n", "\t", "\r"}

is_ascii_alphanumeric(c) == c \in Digits \cup Letters

ID8_LEN == 8

validate_id8(id8) ==
    /\ Len(id8) = ID8_LEN
    /\ \A i \in 1..Len(id8) : is_ascii_alphanumeric(id8[i])

RevA == <<"r", "e", "v", "0", "0", "0", "0", "a">>
RevB == <<"r", "e", "v", "0", "0", "0", "0", "b">>
AppA == <<"a", "p", "p", "0", "0", "0", "0", "a">>
Ses1 == <<"s", "e", "s", "s", "0", "0", "0", "1">>
Ses2 == <<"s", "e", "s", "s", "0", "0", "0", "2">>
BadShort == <<"b", "a", "d">>
BadChar == <<"r", "e", "v", "0", "0", "0", "0", "!">>

\* owner tokens that can name a temp file or stand in the lock file
Owners == {RevA, RevB, AppA}

----------------------------------------------------------------------------
(* lock.rs                                                                 *)

DEFAULT_MAX_RETRIES == 8
INITIAL_BACKOFF_MS == 100
MAX_BACKOFF_MS == 6400

NoLock == [exists |-> FALSE, body |-> <<>>]
LockWith(body) == [exists |-> TRUE, body |-> body]

RECURSIVE trim_end(_)
\* the marker's body as read, trailing newline kept
no_trim(s) == s

trim_end(s) ==
    IF s # <<>> /\ s[Len(s)] \in Whitespace
    THEN trim_end(SubSeq(s, 1, Len(s) - 1))
    ELSE s

\* writeln!(f, "{owner}")
writeln(owner) == owner \o <<"\n">>

\* u64::saturating_mul: wait_ms <= MAX_BACKOFF_MS, so the product stays far
\* below 2^64 and never saturates
saturating_mul(a, b) == a * b
Min(a, b) == IF a <= b THEN a ELSE b
\* a doubling without the cap
next_wait_uncapped(w) == saturating_mul(w, 2)

next_wait_ms(w) == Min(saturating_mul(w, 2), MAX_BACKOFF_MS)

\* OpenOptions::new().write(true).create_new(true).open(&lock_file) is Ok
\* a plain create: an existing marker is opened and truncated
create_truncate_ok(lf) == TRUE

create_new_ok(lf) == ~lf.exists

\* release_inner: `if owner == self.owner`
\* a comparison that never holds
owner_never_matches(read, own) == FALSE

\* a release that does not look at the stored token
owner_always_matches(read, own) == TRUE

owner_matches(read, own) == read = own

----------------------------------------------------------------------------
(* paths.rs                                                                *)

MAX_REF_LEN == 64

sanitize_char(ch) ==
    IF is_ascii_alphanumeric(ch) \/ ch \in {".", "-", "_"} THEN ch ELSE "_"

RECURSIVE trim_start_matches(_, _)
trim_start_matches(s, c) ==
    IF s # <<>> /\ s[1] = c THEN trim_start_matches(Tail(s), c) ELSE s

RECURSIVE trim_end_matches(_, _)
trim_end_matches(s, c) ==
    IF s # <<>> /\ s[Len(s)] = c
    THEN trim_end_matches(SubSeq(s, 1, Len(s) - 1), c)
    ELSE s

trim_matches(s, c) == trim_end_matches(trim_start_matches(s, c), c)

truncate(s, n) == IF Len(s) > n THEN SubSeq(s, 1, n) ELSE s

sanitize_ref(input) ==
    LET out == [i \in 1..Len(input) |-> sanitize_char(input[i])]
        trimmed == trim_matches(out, "_")
        normalized == IF trimmed = <<>> THEN <<"r", "e", "f">> ELSE trimmed
    IN  truncate(normalized, MAX_REF_LEN)

----------------------------------------------------------------------------
(* session.rs: the document                                                *)

\* a status test that knows FINISHED only
only_finished(status) == status = "FINISHED"

\* ReviewerStatus::is_terminal
is_terminal(status) == status \in {"FINISHED", "CANCELLED", "ERROR"}

\* SeverityCounts::zero
SeverityCountsZero == [blocker |-> 0, major |-> 0, minor |-> 0, nit |-> 0]

\* SessionFile as register_reviewer creates it when _session.json is absent
NewSessionFile == [reviewers |-> <<>>, reviews |-> <<>>]

\* contents of _session.json or of a temp file: absent, a complete
\* serialisation of a document, or a prefix of one (fs::write under way)
Absent == [st |-> "absent", doc |-> NewSessionFile]
Partial == [st |-> "partial", doc |-> NewSessionFile]
Full(doc) == [st |-> "full", doc |-> doc]

\* index of the first element of seq satisfying Test, 0 if none (Iterator::find)
FindFirst(seq, Test(_)) ==
    IF \E i \in 1..Len(seq) : Test(seq[i])
    THEN CHOOSE i \in 1..Len(seq) :
            /\ Test(seq[i])
            /\ \A j \in 1..(i - 1) : ~Test(seq[j])
    ELSE 0

\* a lookup by reviewer alone
find_by_reviewer(doc, reviewer_id, session_id) ==
    LET Test(r) == r.reviewer_id = reviewer_id
    IN  FindFirst(doc.reviews, Test)

\* .find(|r| r.reviewer_id == reviewer_id && r.session_id == session_id)
find_entry(doc, reviewer_id, session_id) ==
    LET Test(r) == r.reviewer_id = reviewer_id /\ r.session_id = session_id
    IN  FindFirst(doc.reviews, Test)

\* an RFC 3339 timestamp, kept as the instant (in ms) it spells out
format_ts(now) == [rfc3339 |-> now]
parse_ts(s) == s.rfc3339

\* "[hour]-[minute]-[second]-[subsecond digits:3]": the time of day, in ms
time_prefix(started_at) == started_at % 86400000

report_file_name(started_at, target_ref, reviewer_id) ==
    <<time_prefix(started_at), sanitize_ref(target_ref), reviewer_id>>

\* report.ends_with('\n') or push('\n')
with_trailing_newline(report) ==
    IF report # <<>> /\ report[Len(report)] = "\n"
    THEN report
    ELSE report \o <<"\n">>

----------------------------------------------------------------------------
(* Invocations.  One record shape for every command, unused fields at     *)
(* their defaults.                                                         *)

\* ReportsFilters::default()
NoFilters ==
    [target_ref |-> <<>>, session_id |-> <<>>, reviewer_id |-> <<>>,
     reviewer_statuses |-> <<>>, initiator_statuses |-> <<>>,
     verdicts |-> <<>>, phases |-> <<>>,
     only_with_report |-> FALSE, only_with_notes |-> FALSE]

NoOp ==
    [kind |-> "none", owner |-> <<>>, max_retries |-> 0,
     reviewer_id |-> <<>>, session_id |-> None, target_ref |-> <<>>,
     parent_id |-> None, status |-> None, phase |-> None,
     initiator_status |-> "", verdict |-> "", counts |-> SeverityCountsZero,
     role |-> "", note_type |-> "", content |-> "",
     report_markdown |-> <<>>, now |-> 0,
     target_filter |-> None, binary |-> "",
     view |-> "", filters |-> NoFilters]

LockAcquireOp(owner, max_retries) ==
    [NoOp EXCEPT !.kind = "lock_acquire", !.owner = owner,
                 !.max_retries = max_retries]

LockReleaseOp(owner) ==
    [NoOp EXCEPT !.kind = "lock_release", !.owner = owner]

\* register_reviewer, update_review and finalize_review lock as the reviewer
\* with LockConfig::default()
RegisterOp(reviewer_id, session_id, target_ref, parent_id, now) ==
    [NoOp EXCEPT !.kind = "register", !.owner = reviewer_id,
                 !.max_retries = DEFAULT_MAX_RETRIES,
                 !.reviewer_id = reviewer_id, !.session_id = session_id,
                 !.target_ref = target_ref, !.parent_id = parent_id,
                 !.now = now]

UpdateOp(reviewer_id, session_id, status, phase, now) ==
    [NoOp EXCEPT !.kind = "update", !.owner = reviewer_id,
                 !.max_retries = DEFAULT_MAX_RETRIES,
                 !.reviewer_id = reviewer_id, !.session_id = Some(session_id),
                 !.status = status, !.phase = phase, !.now = now]

FinalizeOp(reviewer_id, session_id, verdict, counts, report_markdown, now) ==
    [NoOp EXCEPT !.kind = "finalize", !.owner = reviewer_id,
                 !.max_retries = DEFAULT_MAX_RETRIES,
                 !.reviewer_id = reviewer_id, !.session_id = Some(session_id),
                 !.verdict = verdict, !.counts = counts,
                 !.report_markdown = report_markdown, !.now = now]

\* append_note and set_initiator_status lock as params.lock_owner
NoteOp(reviewer_id, session_id, role, note_type, content, now, lock_owner) ==
    [NoOp EXCEPT !.kind = "note", !.owner = lock_owner,
                 !.max_retries = DEFAULT_MAX_RETRIES,
                 !.reviewer_id = reviewer_id, !.session_id = Some(session_id),
                 !.role = role, !.note_type = note_type, !.content = content,
                 !.now = now]

SetInitiatorOp(reviewer_id, session_id, initiator_status, now, lock_owner) ==
    [NoOp EXCEPT !.kind = "set_initiator", !.owner = lock_owner,
                 !.max_retries = DEFAULT_MAX_RETRIES,
                 !.reviewer_id = reviewer_id, !.session_id = Some(session_id),
                 !.initiator_status = initiator_status, !.now = now]

\* load_session: `session show`, `session reports`
ReadOp == [NoOp EXCEPT !.kind = "read"]

\* the identifier checks a command makes before it touches the directory
ids_valid(o) ==
    CASE o.kind = "register" ->
            /\ validate_id8(o.reviewer_id)
            /\ o.parent_id # None => validate_id8(o.parent_id[1])
      [] o.kind \in {"update", "finalize"} ->
            /\ validate_id8(o.reviewer_id)
            /\ validate_id8(o.session_id[1])
      [] o.kind \in {"note", "set_initiator"} ->
            /\ validate_id8(o.reviewer_id)
            /\ validate_id8(o.session_id[1])
            /\ validate_id8(o.owner)
      [] OTHER -> TRUE

FirstPc(o) ==
    CASE o.kind = "lock_release" -> "rel_read"
      [] o.kind = "read" -> "load"
      [] o.kind = "reports" -> "reports"
      [] OTHER -> "acquire"

\* a process starts an invocation
Invoke(p, o) ==
    /\ pc[p] = "idle"
    /\ todo > 0
    /\ todo' = todo - 1
    /\ op' = [op EXCEPT ![p] = o]
    /\ stage' = [stage EXCEPT ![p] = 1]
    /\ attempt' = [attempt EXCEPT ![p] = 0]
    /\ wait_ms' = [wait_ms EXCEPT ![p] = INITIAL_BACKOFF_MS]
    /\ ret' = [ret EXCEPT ![p] = <<>>]
    /\ wrote' = [wrote EXCEPT ![p] = FALSE]
    /\ pre' = sessionFile
    \* release_lock builds its guard from the path and the owner
    /\ guard' = [guard EXCEPT ![p] = o.kind = "lock_release"]
    /\ IF ids_valid(o)
       THEN /\ pc' = [pc EXCEPT ![p] = FirstPc(o)]
            /\ result' = [result EXCEPT ![p] = "running"]
       ELSE /\ pc' = pc
            /\ result' = [result EXCEPT ![p] = "IdentifierInvalid"]
    /\ UNCHANGED <<fsvars, mem, windows, shadow>>

\* where a command continues once acquire_lock has returned its guard
AfterAcquire(o, st) ==
    CASE o.kind = "lock_acquire" -> "idle"
      [] o.kind = "register" -> "reg_read"
      [] o.kind = "finalize" /\ st = 1 -> "fin_read"
      [] o.kind = "finalize" /\ st # 1 -> "fin_update"
      [] OTHER -> "upd_read"

\* a loop that gives up one attempt late: attempt > cfg.max_retries
acquire_lock_one_more(p) ==
    /\ pc[p] = "acquire"
    /\ IF create_new_ok(lockFile)
       THEN /\ lockFile' = LockWith(<<>>)
            /\ pc' = [pc EXCEPT ![p] = "write_owner"]
            /\ attempt' = [attempt EXCEPT ![p] = 0]
            /\ wait_ms' = [wait_ms EXCEPT ![p] = INITIAL_BACKOFF_MS]
            /\ UNCHANGED result
       ELSE IF attempt[p] > op[p].max_retries
       THEN /\ pc' = [pc EXCEPT ![p] = "idle"]
            /\ result' = [result EXCEPT ![p] = "LockTimeout"]
            /\ attempt' = [attempt EXCEPT ![p] = 0]
            /\ wait_ms' = [wait_ms EXCEPT ![p] = INITIAL_BACKOFF_MS]
            /\ UNCHANGED lockFile
       ELSE /\ attempt' = [attempt EXCEPT ![p] = @ + 1]
            /\ wait_ms' = [wait_ms EXCEPT ![p] = next_wait_ms(@)]
            /\ UNCHANGED <<lockFile, pc, result>>
    /\ UNCHANGED <<sessionFile, tmpFile, reportFiles, op, mem, guard, stage,
                   windows, ret, todo, hist>>

\* a loop that gives up by releasing the marker that carries its token
acquire_lock_gives_up_releasing(p) ==
    /\ pc[p] = "acquire"
    /\ IF create_new_ok(lockFile)
       THEN /\ lockFile' = LockWith(<<>>)
            /\ pc' = [pc EXCEPT ![p] = "write_owner"]
            /\ attempt' = [attempt EXCEPT ![p] = 0]
            /\ wait_ms' = [wait_ms EXCEPT ![p] = INITIAL_BACKOFF_MS]
            /\ UNCHANGED <<result, guard>>
       ELSE IF attempt[p] >= op[p].max_retries
       THEN /\ pc' = [pc EXCEPT ![p] = "rel_read"]
            /\ guard' = [guard EXCEPT ![p] = TRUE]
            /\ result' = [result EXCEPT ![p] = "LockTimeout"]
            /\ attempt' = [attempt EXCEPT ![p] = 0]
            /\ wait_ms' = [wait_ms EXCEPT ![p] = INITIAL_BACKOFF_MS]
            /\ UNCHANGED lockFile
       ELSE /\ attempt' = [attempt EXCEPT ![p] = @ + 1]
            /\ wait_ms' = [wait_ms EXCEPT ![p] = next_wait_ms(@)]
            /\ UNCHANGED <<lockFile, pc, result, guard>>
    /\ UNCHANGED <<sessionFile, tmpFile, reportFiles, op, mem, stage,
                   windows, ret, todo, hist>>

\* acquire_lock, one turn of the loop: the exclusive create
acquire_lock(p) ==
    /\ pc[p] = "acquire"
    /\ IF create_new_ok(lockFile)
       THEN /\ lockFile' = LockWith(<<>>)
            /\ pc' = [pc EXCEPT ![p] = "write_owner"]
            /\ attempt' = [attempt EXCEPT ![p] = 0]
            /\ wait_ms' = [wait_ms EXCEPT ![p] = INITIAL_BACKOFF_MS]
            /\ UNCHANGED result
       ELSE IF attempt[p] >= op[p].max_retries
       THEN /\ pc' = [pc EXCEPT ![p] = "idle"]
            /\ result' = [result EXCEPT ![p] = "LockTimeout"]
            /\ attempt' = [attempt EXCEPT ![p] = 0]
            /\ wait_ms' = [wait_ms EXCEPT ![p] = INITIAL_BACKOFF_MS]
            /\ UNCHANGED lockFile
       ELSE /\ attempt' = [attempt EXCEPT ![p] = @ + 1]
            /\ wait_ms' = [wait_ms EXCEPT ![p] = next_wait_ms(@)]
            /\ UNCHANGED <<lockFile, pc, result>>
    /\ UNCHANGED <<sessionFile, tmpFile, reportFiles, op, mem, guard, stage,
                   windows, ret, todo, hist>>

\* acquire_lock: writeln!(f, "{owner}"), flush, return the guard.  The CLI's
\* `lock acquire` then forgets the guard (std::mem::forget), so no drop runs.
acquire_write_owner(p) ==
    /\ pc[p] = "write_owner"
    /\ lockFile' = IF lockFile.exists
                   THEN LockWith(writeln(op[p].owner))
                   ELSE lockFile
    /\ guard' = [guard EXCEPT ![p] = op[p].kind # "lock_acquire"]
    /\ pc' = [pc EXCEPT ![p] = AfterAcquire(op[p], stage[p])]
    /\ result' = [result EXCEPT ![p] =
                    IF op[p].kind = "lock_acquire" THEN "ok" ELSE @]
    /\ UNCHANGED <<sessionFile, tmpFile, reportFiles, op, mem, attempt,
                   wait_ms, stage, windows, ret, todo, hist>>

\* where a command continues once its guard has been released
AfterRelease(p) ==
    IF op[p].kind = "finalize" /\ stage[p] = 1 /\ result[p] = "running"
    THEN "fin_create"
    ELSE "idle"

ResultAfterRelease(p) ==
    IF result[p] = "running" /\ AfterRelease(p) = "idle" THEN "ok" ELSE result[p]

\* a release that reads lock_file without taking it out of the guard
release_inner_keeps_guard(p) ==
    /\ pc[p] = "rel_read"
    /\ UNCHANGED guard
    /\ IF guard[p] /\ lockFile.exists
          /\ owner_matches(trim_end(lockFile.body), op[p].owner)
       THEN /\ pc' = [pc EXCEPT ![p] = "rel_remove"]
            /\ UNCHANGED result
       ELSE /\ pc' = [pc EXCEPT ![p] = AfterRelease(p)]
            /\ result' = [result EXCEPT ![p] = ResultAfterRelease(p)]
    /\ mem' = [mem EXCEPT ![p] = NewSessionFile]
    /\ UNCHANGED <<fsvars, op, attempt, wait_ms, stage, windows, ret, todo,
                   hist>>

\* release_inner, first half: take lock_file, read the owner, compare
release_inner(p) ==
    /\ pc[p] = "rel_read"
    /\ guard' = [guard EXCEPT ![p] = FALSE]
    /\ IF guard[p] /\ lockFile.exists
          /\ owner_matches(trim_end(lockFile.body), op[p].owner)
       THEN /\ pc' = [pc EXCEPT ![p] = "rel_remove"]
            /\ UNCHANGED result
       ELSE /\ pc' = [pc EXCEPT ![p] = AfterRelease(p)]
            /\ result' = [result EXCEPT ![p] = ResultAfterRelease(p)]
    /\ mem' = [mem EXCEPT ![p] = NewSessionFile]
    /\ UNCHANGED <<fsvars, op, attempt, wait_ms, stage, windows, ret, todo,
                   hist>>

\* release_inner, second half: fs::remove_file (NotFound is Ok)
release_remove(p) ==
    /\ pc[p] = "rel_remove"
    /\ lockFile' = NoLock
    /\ pc' = [pc EXCEPT ![p] = AfterRelease(p)]
    /\ result' = [result EXCEPT ![p] = ResultAfterRelease(p)]
    /\ UNCHANGED <<sessionFile, tmpFile, reportFiles, op, mem, guard, attempt,
                   wait_ms, stage, windows, ret, todo, hist>>

----------------------------------------------------------------------------
(* session.rs: reading the document inside the critical section           *)

\* an error return that skips the guard's drop
BailLeak(p, err) ==
    /\ pc' = [pc EXCEPT ![p] = "idle"]
    /\ result' = [result EXCEPT ![p] = err]

\* a step inside the critical section fails: `?` returns, the guard drops
Bail(p, err) ==
    /\ pc' = [pc EXCEPT ![p] = "rel_read"]
    /\ result' = [result EXCEPT ![p] = err]

\* read_session_file as a process sees it
read_error(file) ==
    CASE file.st = "absent" -> "NotFound"
      [] file.st = "partial" -> "ParseError"
      [] OTHER -> "ok"

----------------------------------------------------------------------------
(* session.rs: update_review, append_note, set_initiator_status            *)

ReplaceEntry(doc, i, e) == [doc EXCEPT !.reviews[i] = e]

\* current_phase taken from the flattened option: an omitted phase clears it
update_review_flatten(e, o) ==
    [e EXCEPT !.status = IF o.status # None THEN o.status[1] ELSE @,
              !.current_phase = IF o.phase # None THEN o.phase[1] ELSE None,
              !.updated_at = format_ts(o.now)]

\* an update that stamps finished_at when it sets a status
update_review_stamps(e, o) ==
    [e EXCEPT !.status = IF o.status # None THEN o.status[1] ELSE @,
              !.current_phase = IF o.phase # None THEN o.phase[1] ELSE @,
              !.finished_at = IF o.status # None THEN Some(format_ts(o.now))
                              ELSE @,
              !.updated_at = format_ts(o.now)]

update_review(e, o) ==
    [e EXCEPT !.status = IF o.status # None THEN o.status[1] ELSE @,
              !.current_phase = IF o.phase # None THEN o.phase[1] ELSE @,
              !.updated_at = format_ts(o.now)]

SessionNote(o) ==
    [role |-> o.role, timestamp |-> format_ts(o.now),
     note_type |-> o.note_type, content |-> o.content]

\* the log replaced by the new note
note_overwrite(e, o) ==
    [e EXCEPT !.notes = <<SessionNote(o)>>,
              !.updated_at = format_ts(o.now)]

append_note(e, o) ==
    [e EXCEPT !.notes = Append(@, SessionNote(o)),
              !.updated_at = format_ts(o.now)]

\* the applicator's call also moves the reviewer's status
set_initiator_and_status(e, o) ==
    [e EXCEPT !.initiator_status = o.initiator_status,
              !.status = "IN_PROGRESS",
              !.updated_at = format_ts(o.now)]

set_initiator_status(e, o) ==
    [e EXCEPT !.initiator_status = o.initiator_status,
              !.updated_at = format_ts(o.now)]

Mutate(e, o) ==
    CASE o.kind = "update" -> update_review(e, o)
      [] o.kind = "note" -> append_note(e, o)
      [] o.kind = "set_initiator" -> set_initiator_status(e, o)

\* read_session_file, find the entry, change it in memory
locked_mutate(p) ==
    /\ pc[p] = "upd_read"
    /\ LET o == op[p]
           i == find_entry(sessionFile.doc, o.reviewer_id, o.session_id[1])
       IN  IF read_error(sessionFile) # "ok"
           THEN Bail(p, read_error(sessionFile)) /\ UNCHANGED mem
           ELSE IF i = 0
           THEN Bail(p, "NotFound") /\ UNCHANGED mem
           ELSE /\ mem' = [mem EXCEPT ![p] =
                    ReplaceEntry(sessionFile.doc, i,
                                 Mutate(sessionFile.doc.reviews[i], o))]
                /\ pc' = [pc EXCEPT ![p] = "wr_trunc"]
                /\ UNCHANGED result
    /\ UNCHANGED <<fsvars, op, guard, attempt, wait_ms, stage, windows, ret,
                   todo, hist>>

----------------------------------------------------------------------------
(* session.rs: register_reviewer                                           *)

\* id::random_id8() yields eight lowercase hex digits
Hex1 == <<"0", "0", "0", "0", "0", "0", "a", "1">>
Hex2 == <<"0", "0", "0", "0", "0", "0", "a", "2">>
random_id8 == {Hex1, Hex2}

Contains(seq, x) == \E i \in 1..Len(seq) : seq[i] = x

\* "Join active session if one exists for this target_ref."
\* the first entry for the target, whatever its status
any_session(doc, target_ref) ==
    LET Test(r) == r.target_ref = target_ref
    IN  FindFirst(doc.reviews, Test)

active_session(doc, target_ref) ==
    LET Test(r) == /\ r.target_ref = target_ref
                   /\ r.status \in {"INITIALIZING", "IN_PROGRESS", "BLOCKED"}
    IN  FindFirst(doc.reviews, Test)

\* a session id minted whenever none is given
resolve_without_join(doc, o, minted) ==
    IF o.session_id # None THEN o.session_id[1] ELSE minted

resolve_session_id(doc, o, minted) ==
    IF o.session_id # None
    THEN o.session_id[1]
    ELSE IF active_session(doc, o.target_ref) # 0
    THEN doc.reviews[active_session(doc, o.target_ref)].session_id
    ELSE minted

\* the first entry for the target, whatever its session
inherit_by_target(doc, target_ref, session_id) ==
    LET Test(r) == r.target_ref = target_ref
        i == FindFirst(doc.reviews, Test)
    IN  IF i = 0 THEN "REQUESTING" ELSE doc.reviews[i].initiator_status

inherited_initiator_status(doc, target_ref, session_id) ==
    LET Test(r) == r.target_ref = target_ref /\ r.session_id = session_id
        i == FindFirst(doc.reviews, Test)
    IN  IF i = 0 THEN "REQUESTING" ELSE doc.reviews[i].initiator_status

\* reviewers.push without the `any` test
push_reviewer_again(doc, reviewer_id) ==
    [doc EXCEPT !.reviewers = Append(@, reviewer_id)]

push_reviewer(doc, reviewer_id) ==
    IF Contains(doc.reviewers, reviewer_id)
    THEN doc
    ELSE [doc EXCEPT !.reviewers = Append(@, reviewer_id)]

NewEntry(o, session_id, initiator_status) ==
    [reviewer_id |-> o.reviewer_id,
     session_id |-> session_id,
     target_ref |-> o.target_ref,
     initiator_status |-> initiator_status,
     status |-> "INITIALIZING",
     parent_id |-> o.parent_id,
     started_at |-> format_ts(o.now),
     updated_at |-> format_ts(o.now),
     finished_at |-> None,
     current_phase |-> None,
     verdict |-> None,
     counts |-> SeverityCountsZero,
     report_file |-> None,
     notes |-> <<>>]

\* a registration that never compares the target
no_mismatch(existing, o) == FALSE

\* the existing entry makes the call a conflict
target_mismatch(existing, o) == existing.target_ref # o.target_ref

\* a registration that never looks for its entry
no_existing_entry(doc, reviewer_id, session_id) == 0

\* .find(|r| r.reviewer_id == reviewer_id && r.session_id == session_id)
existing_entry(doc, reviewer_id, session_id) ==
    find_entry(doc, reviewer_id, session_id)

\* the new entry put in front of the others
with_new_entry_first(doc, o, session_id) ==
    [push_reviewer(doc, o.reviewer_id) EXCEPT
        !.reviews = <<NewEntry(o, session_id,
            inherited_initiator_status(doc, o.target_ref, session_id))>> \o @]

\* reviewers.push if missing, reviews.push(ReviewEntry { .. })
with_new_entry(doc, o, session_id) ==
    [push_reviewer(doc, o.reviewer_id) EXCEPT
        !.reviews = Append(@,
            NewEntry(o, session_id,
                inherited_initiator_status(doc, o.target_ref, session_id)))]

\* the entry is pushed and stored before the session id is rejected
store_then_reject(doc, o, session_id) ==
    [res |-> "IdentifierInvalid", write |-> TRUE,
     doc |-> with_new_entry(doc, o, session_id), session_id |-> session_id]

\* an explicit session id that validate_id8 rejects: nothing is written
reject_session_id(doc, o, session_id) ==
    [res |-> "IdentifierInvalid", write |-> FALSE, doc |-> doc,
     session_id |-> session_id]

\* what register_reviewer decides once it holds the lock and the document:
\* the outcome, whether it writes, the document it writes, the session id
register_reviewer(doc, o, minted) ==
    LET session_id == resolve_session_id(doc, o, minted)
        ex == existing_entry(doc, o.reviewer_id, session_id)
    IN  IF o.session_id # None /\ ~validate_id8(o.session_id[1])
        THEN reject_session_id(doc, o, session_id)
        ELSE IF ex # 0 /\ target_mismatch(doc.reviews[ex], o)
        THEN [res |-> "Conflict", write |-> FALSE, doc |-> doc,
              session_id |-> session_id]
        ELSE IF ex # 0
        THEN [res |-> "ok",
              write |-> ~Contains(doc.reviewers, o.reviewer_id),
              doc |-> push_reviewer(doc, o.reviewer_id),
              session_id |-> session_id]
        ELSE [res |-> "ok", write |-> TRUE,
              doc |-> with_new_entry(doc, o, session_id),
              session_id |-> session_id]

\* session_file().exists(), read_session_file or a new SessionFile, then the
\* decision above
register_read(p) ==
    /\ pc[p] = "reg_read"
    /\ IF sessionFile.st = "partial"
       THEN Bail(p, "ParseError") /\ UNCHANGED <<mem, ret>>
       ELSE \E minted \in random_id8 :
              LET doc == IF sessionFile.st = "absent"
                         THEN NewSessionFile ELSE sessionFile.doc
                  d == register_reviewer(doc, op[p], minted)
              IN  /\ mem' = [mem EXCEPT ![p] = d.doc]
                  /\ ret' = [ret EXCEPT ![p] =
                               <<op[p].reviewer_id, d.session_id>>]
                  /\ pc' = [pc EXCEPT ![p] =
                               IF d.write THEN "wr_trunc" ELSE "rel_read"]
                  /\ result' = [result EXCEPT ![p] =
                                  IF d.res = "ok" THEN @ ELSE d.res]
    /\ UNCHANGED <<fsvars, op, guard, attempt, wait_ms, stage, windows, todo, hist>>

----------------------------------------------------------------------------
(* session.rs: finalize_review                                             *)

\* step 1 without the overwrite check
report_never_set(e) == FALSE

\* step 1 refuses an entry whose report_file is set
report_already_set(e) == e.report_file # None

\* step 1 (locked): find the entry, refuse to overwrite, compute the name
finalize_read(p) ==
    /\ pc[p] = "fin_read"
    /\ LET o == op[p]
           i == find_entry(sessionFile.doc, o.reviewer_id, o.session_id[1])
       IN  IF read_error(sessionFile) # "ok"
           THEN Bail(p, read_error(sessionFile)) /\ UNCHANGED ret
           ELSE IF i = 0
           THEN Bail(p, "NotFound") /\ UNCHANGED ret
           ELSE IF report_already_set(sessionFile.doc.reviews[i])
           THEN Bail(p, "Conflict") /\ UNCHANGED ret
           ELSE /\ ret' = [ret EXCEPT ![p] =
                    <<report_file_name(
                         parse_ts(sessionFile.doc.reviews[i].started_at),
                         sessionFile.doc.reviews[i].target_ref,
                         o.reviewer_id)>>]
                /\ pc' = [pc EXCEPT ![p] = "rel_read"]
                /\ UNCHANGED result
    /\ UNCHANGED <<fsvars, op, mem, guard, attempt, wait_ms, stage, windows,
                   todo, hist>>

\* a create that never finds the report file (create without create_new)
report_never_exists(name) == FALSE

ReportExists(name) == name \in DOMAIN reportFiles

\* step 2 (no lock): OpenOptions::new().write(true).create_new(true)
finalize_create_report(p) ==
    /\ pc[p] = "fin_create"
    /\ IF ReportExists(ret[p][1])
       THEN /\ pc' = [pc EXCEPT ![p] = "idle"]
            /\ result' = [result EXCEPT ![p] = "IOError"]
            /\ UNCHANGED reportFiles
       ELSE /\ reportFiles' = reportFiles @@ (ret[p][1] :> <<>>)
            /\ pc' = [pc EXCEPT ![p] = "fin_write"]
            /\ UNCHANGED result
    /\ UNCHANGED <<lockFile, sessionFile, tmpFile, op, mem, guard, attempt,
                   wait_ms, stage, windows, ret, todo, hist>>

\* step 2: write_all, flush; then step 3 asks for the lock again
finalize_write_report(p) ==
    /\ pc[p] = "fin_write"
    /\ reportFiles' = [reportFiles EXCEPT ![ret[p][1]] =
                          with_trailing_newline(op[p].report_markdown)]
    /\ pc' = [pc EXCEPT ![p] = "acquire"]
    /\ stage' = [stage EXCEPT ![p] = 3]
    /\ attempt' = [attempt EXCEPT ![p] = 0]
    /\ wait_ms' = [wait_ms EXCEPT ![p] = INITIAL_BACKOFF_MS]
    /\ UNCHANGED <<lockFile, sessionFile, tmpFile, op, mem, guard, windows,
                   result, ret, todo, hist>>

\* step 3 that builds the finished entry anew from the arguments
finish_entry_anew(e, o, report_file) ==
    [e EXCEPT !.status = "FINISHED",
              !.current_phase = Some("REPORT_WRITING"),
              !.verdict = Some(o.verdict),
              !.counts = o.counts,
              !.report_file = Some(report_file),
              !.finished_at = Some(format_ts(o.now)),
              !.updated_at = format_ts(o.now),
              !.started_at = format_ts(o.now),
              !.notes = <<>>]

\* step 3 that leaves a terminal status and its phase as it finds them
finish_entry_unless_terminal(e, o, report_file) ==
    [e EXCEPT !.status = IF is_terminal(@) THEN @ ELSE "FINISHED",
              !.current_phase = IF is_terminal(e.status) THEN @
                                ELSE Some("REPORT_WRITING"),
              !.verdict = Some(o.verdict),
              !.counts = o.counts,
              !.report_file = Some(report_file),
              !.finished_at = Some(format_ts(o.now)),
              !.updated_at = format_ts(o.now)]

finish_entry(e, o, report_file) ==
    [e EXCEPT !.status = "FINISHED",
              !.current_phase = Some("REPORT_WRITING"),
              !.verdict = Some(o.verdict),
              !.counts = o.counts,
              !.report_file = Some(report_file),
              !.finished_at = Some(format_ts(o.now)),
              !.updated_at = format_ts(o.now)]

\* step 3 (locked): read again, find the entry, point it at the report
finalize_update(p) ==
    /\ pc[p] = "fin_update"
    /\ LET o == op[p]
           i == find_entry(sessionFile.doc, o.reviewer_id, o.session_id[1])
       IN  IF read_error(sessionFile) # "ok"
           THEN Bail(p, read_error(sessionFile)) /\ UNCHANGED mem
           ELSE IF i = 0
           THEN Bail(p, "NotFound") /\ UNCHANGED mem
           ELSE /\ mem' = [mem EXCEPT ![p] =
                    ReplaceEntry(sessionFile.doc, i,
                       finish_entry(sessionFile.doc.reviews[i], o, ret[p][1]))]
                /\ pc' = [pc EXCEPT ![p] = "wr_trunc"]
                /\ UNCHANGED result
    /\ UNCHANGED <<fsvars, op, guard, attempt, wait_ms, stage, windows, ret,
                   todo, hist>>

----------------------------------------------------------------------------
(* The change an invocation makes to a document, as one function: what the *)
(* process computes between its locked read and its write.                 *)

ApplyOp(o, r, doc) ==
    LET i == find_entry(doc, o.reviewer_id, o.session_id[1])
    IN  CASE o.kind = "register" -> register_reviewer(doc, o, r[2]).doc
          [] o.kind = "finalize" ->
                IF i = 0 THEN doc
                ELSE ReplaceEntry(doc, i, finish_entry(doc.reviews[i], o, r[1]))
          [] OTHER ->
                IF i = 0 THEN doc
                ELSE ReplaceEntry(doc, i, Mutate(doc.reviews[i], o))

----------------------------------------------------------------------------
(* session.rs: write_session_file_atomic                                   *)

\* the body written straight into _session.json
stage_in_place(owner) ==
    /\ sessionFile' = Partial
    /\ UNCHANGED tmpFile

\* write_session_file_atomic: fs::write(&tmp, body) opens and truncates ...
stage_truncate(owner) ==
    /\ tmpFile' = [tmpFile EXCEPT ![owner] = Partial]
    /\ UNCHANGED sessionFile

write_tmp_open(p) ==
    /\ pc[p] = "wr_trunc"
    /\ stage_truncate(op[p].owner)
    /\ pc' = [pc EXCEPT ![p] = "wr_body"]
    /\ UNCHANGED <<lockFile, reportFiles, op, mem, guard, attempt, wait_ms,
                   stage, windows, result, ret, todo, hist>>

\* ... and writes the whole body
write_tmp_body(p) ==
    /\ pc[p] = "wr_body"
    /\ tmpFile' = [tmpFile EXCEPT ![op[p].owner] = Full(mem[p])]
    /\ pc' = [pc EXCEPT ![p] =
                IF windows /\ sessionFile.st # "absent"
                THEN "wr_remove" ELSE "wr_rename"]
    /\ UNCHANGED <<lockFile, sessionFile, reportFiles, op, mem, guard,
                   attempt, wait_ms, stage, windows, result, ret, todo, hist>>

\* cfg(windows): fs::remove_file(&session_file) before the rename
write_remove_dest(p) ==
    /\ pc[p] = "wr_remove"
    /\ sessionFile' = Absent
    /\ wrote' = [wrote EXCEPT ![p] = TRUE]
    /\ pc' = [pc EXCEPT ![p] = "wr_rename"]
    /\ UNCHANGED <<lockFile, tmpFile, reportFiles, op, mem, guard, attempt,
                   wait_ms, stage, windows, result, ret, todo, shadow, pre>>

\* fs::rename(&tmp, &session_file)
write_rename(p) ==
    /\ pc[p] = "wr_rename"
    /\ IF tmpFile[op[p].owner].st = "absent"
       THEN /\ Bail(p, "IOError")
            /\ UNCHANGED <<sessionFile, tmpFile, shadow, wrote>>
       ELSE /\ sessionFile' = tmpFile[op[p].owner]
            /\ tmpFile' = [tmpFile EXCEPT ![op[p].owner] = Absent]
            /\ shadow' = ApplyOp(op[p], ret[p], shadow)
            /\ wrote' = [wrote EXCEPT ![p] = TRUE]
            /\ pc' = [pc EXCEPT ![p] = "rel_read"]
            /\ UNCHANGED result
    /\ UNCHANGED <<lockFile, reportFiles, op, mem, guard, attempt, wait_ms,
                   stage, windows, ret, todo, pre>>


----------------------------------------------------------------------------
(* Readers take no lock.                                                   *)

load_session(p) ==
    /\ pc[p] = "load"
    /\ pc' = [pc EXCEPT ![p] = "idle"]
    /\ result' = [result EXCEPT ![p] = read_error(sessionFile)]
    /\ mem' = [mem EXCEPT ![p] = sessionFile.doc]
    /\ UNCHANGED <<fsvars, op, guard, attempt, wait_ms, stage, windows, ret,
                   todo, hist>>

----------------------------------------------------------------------------
(* Inputs.                                                                 *)

RefMain == <<"m", "a", "i", "n">>
RefDev == <<"d", "e", "v">>

Counts1 == [blocker |-> 1, major |-> 0, minor |-> 2, nit |-> 0]
ReportText == <<"L", "G", "T", "M">>

\* each process presents its own owner token
Token(p) ==
    CASE p = "p1" -> RevA
      [] p = "p2" -> AppA
      [] OTHER -> RevB

InitWith(lock, budget) ==
    /\ lockFile = lock
    /\ sessionFile = Absent
    /\ tmpFile = [o \in Owners |-> Absent]
    /\ reportFiles = <<>>
    /\ pc = [p \in Procs |-> "idle"]
    /\ op = [p \in Procs |-> NoOp]
    /\ mem = [p \in Procs |-> NewSessionFile]
    /\ guard = [p \in Procs |-> FALSE]
    /\ attempt = [p \in Procs |-> 0]
    /\ wait_ms = [p \in Procs |-> INITIAL_BACKOFF_MS]
    /\ stage = [p \in Procs |-> 1]
    /\ result = [p \in Procs |-> "none"]
    /\ ret = [p \in Procs |-> <<>>]
    /\ todo = budget
    /\ shadow = NewSessionFile
    /\ wrote = [p \in Procs |-> FALSE]
    /\ pre = Absent

----------------------------------------------------------------------------
(* Spec: reviewer RevA (p1) and applicator AppA (p2) run coordination      *)
(* commands concurrently while p3 reads the document without the lock.     *)

ReviewerMenu(r, t) ==
    {RegisterOp(r, Some(Ses1), RefMain, None, t),
     RegisterOp(r, None, RefMain, None, t),
     RegisterOp(r, Some(Ses1), RefDev, None, t),
     RegisterOp(r, Some(BadChar), RefMain, None, t),
     UpdateOp(r, Ses1, Some("IN_PROGRESS"), None, t),
     NoteOp(r, Ses1, "reviewer", "question", "why", t, r),
     FinalizeOp(r, Ses1, "APPROVE", Counts1, ReportText, t)}

ApplicatorMenu(a, t) ==
    {NoteOp(RevA, Ses1, "applicator", "applied", "done", t, a),
     SetInitiatorOp(RevA, Ses1, "OBSERVING", t, a)}

Menu(p) ==
    CASE p = "p1" -> ReviewerMenu(RevA, 1)
      [] p = "p2" -> ApplicatorMenu(AppA, 2)
      [] OTHER -> {ReadOp}

Start(p) == \E o \in Menu(p) : Invoke(p, o)

Init ==
    /\ InitWith(NoLock, MaxOps)
    /\ windows \in BOOLEAN

Next ==
    \E p \in Procs :
        \/ Start(p)
        \/ acquire_lock(p)
        \/ acquire_write_owner(p)
        \/ locked_mutate(p)
        \/ register_read(p)
        \/ finalize_read(p)
        \/ finalize_create_report(p)
        \/ finalize_write_report(p)
        \/ finalize_update(p)
        \/ write_tmp_open(p)
        \/ write_tmp_body(p)
        \/ write_remove_dest(p)
        \/ write_rename(p)
        \/ release_inner(p)
        \/ release_remove(p)
        \/ load_session(p)

Spec == Init /\ [][Next]_vars

----------------------------------------------------------------------------
(* Properties of Spec.                                                     *)

SessionKinds == {"register", "update", "finalize", "note", "set_initiator"}

\* program points between a successful exclusive create and the end of the
\* guard's release
LockedPcs ==
    {"write_owner", "upd_read", "reg_read", "fin_read", "fin_update",
     "wr_trunc", "wr_body", "wr_remove", "wr_rename", "rel_remove"}

HoldsLock(p) ==
    /\ op[p].kind # "lock_release"
    /\ \/ pc[p] \in LockedPcs
       \/ pc[p] = "rel_read" /\ guard[p]

\* program points of write_session_file_atomic
WritePcs == {"wr_trunc", "wr_body", "wr_remove", "wr_rename"}

MarkerOf(owner) == lockFile.exists /\ trim_end(lockFile.body) = owner

EntryOf(doc, o) == find_entry(doc, o.reviewer_id, o.session_id[1])

\* C1: with distinct owner tokens at most one process holds the session lock
\* at any instant, and a process inside write_session_file_atomic holds the
\* lock: the marker on disk carries its token.
C1_MutualExclusion ==
    /\ \A p, q \in Procs : p # q => ~(HoldsLock(p) /\ HoldsLock(q))
    /\ \A p \in Procs :
          pc[p] \in WritePcs => HoldsLock(p) /\ MarkerOf(op[p].owner)

\* one process is about to replace the document while another has been
\* refused the marker and is retrying
C1_Witness ==
    \E p, q \in Procs :
        /\ p # q
        /\ pc[p] = "wr_rename"
        /\ pc[q] = "acquire" /\ attempt[q] > 0

\* C4: no update is lost: the document on disk is the result of applying
\* every committed operation, one after the other in commit order, so k
\* committed append-note calls lengthen the notes log by k and a committed
\* note and a committed set-initiator-status both show.
C4_NoLostUpdates ==
    sessionFile.st = "full" => sessionFile.doc = shadow

\* the reviewer's note, the applicator's note and the applicator's
\* initiator status are all on disk
C4_Witness ==
    /\ sessionFile.st = "full"
    /\ Len(sessionFile.doc.reviews) = 1
    /\ Len(sessionFile.doc.reviews[1].notes) = 2
    /\ sessionFile.doc.reviews[1].notes[1].role
          # sessionFile.doc.reviews[1].notes[2].role
    /\ wrote["p1"] /\ wrote["p2"]

\* C5: a reader that takes no lock never sees a partially written document:
\* its read never fails to parse, and a read that succeeds returns the
\* document as the committed operations left it.  (A read may find no
\* document: before the first registration, and on the Windows build
\* between the removal of the destination and the rename.)
C5_ReaderSeesWholeDocument ==
    [][\A p \in Procs :
          (pc[p] = "load" /\ pc'[p] = "idle") =>
              /\ result'[p] \in {"ok", "NotFound"}
              /\ result'[p] = "ok" => mem'[p] = shadow
              /\ (result'[p] = "NotFound" /\ shadow # NewSessionFile) =>
                    /\ windows
                    /\ \E q \in Procs : pc[q] = "wr_rename"]_vars

\* C5 as stated: once a document has been written, every read obtains a
\* completely written document.
C5_ReaderAlwaysObtainsDocument ==
    [][\A p \in Procs :
          (pc[p] = "load" /\ pc'[p] = "idle" /\ shadow # NewSessionFile) =>
              /\ result'[p] = "ok"
              /\ mem'[p] = shadow]_vars

\* a reader has returned a whole document while a writer's temporary file
\* is half written
C5_Witness ==
    \E p, q \in Procs :
        /\ op[p].kind = "read" /\ pc[p] = "idle" /\ result[p] = "ok"
        /\ Len(mem[p].reviews) > 0
        /\ pc[q] = "wr_body" /\ tmpFile[op[q].owner].st = "partial"

C7_FailureAtomicity ==
    \A p \in Procs :
        (pc[p] = "idle" /\ op[p].kind \in SessionKinds
            /\ result[p] \notin {"ok", "none"}) => ~wrote[p]

\* a finalize has written its report, then timed out on the lock in step 3
C7_Witness ==
    \E p \in Procs :
        /\ pc[p] = "idle" /\ op[p].kind = "finalize" /\ stage[p] = 3
        /\ result[p] = "LockTimeout"
        /\ ret[p][1] \in DOMAIN reportFiles
        /\ ~wrote[p]

FinalFields(e) == <<e.report_file, e.verdict, e.counts, e.finished_at>>

\* C10: report_file is write-once: once an entry's report_file is set, no
\* step changes its report_file, verdict, counts or finished_at, and a
\* finalize that finds it set fails with Conflict.
C10_ReportFileWriteOnce ==
    [][/\ \A i \in 1..Len(shadow.reviews) :
             shadow.reviews[i].report_file # None =>
                 /\ i <= Len(shadow'.reviews)
                 /\ FinalFields(shadow'.reviews[i])
                       = FinalFields(shadow.reviews[i])
       /\ (sessionFile.st = "full" /\ sessionFile'.st = "full") =>
             \A i \in 1..Len(sessionFile.doc.reviews) :
                 sessionFile.doc.reviews[i].report_file # None =>
                     /\ i <= Len(sessionFile'.doc.reviews)
                     /\ FinalFields(sessionFile'.doc.reviews[i])
                           = FinalFields(sessionFile.doc.reviews[i])
       /\ \A p \in Procs :
             (/\ pc[p] = "fin_read" /\ pc'[p] # "fin_read"
              /\ sessionFile.st = "full"
              /\ EntryOf(sessionFile.doc, op[p]) # 0
              /\ sessionFile.doc.reviews[EntryOf(sessionFile.doc, op[p])]
                    .report_file # None)
             => result'[p] = "Conflict"]_vars

\* a second finalize of a finished entry has returned Conflict
C10_Witness ==
    \E p \in Procs :
        /\ pc[p] = "idle" /\ op[p].kind = "finalize"
        /\ result[p] = "Conflict"
        /\ sessionFile.st = "full"
        /\ EntryOf(sessionFile.doc, op[p]) # 0
        /\ sessionFile.doc.reviews[EntryOf(sessionFile.doc, op[p])]
              .report_file # None
        /\ ret[p] = <<>>

EntryKey(e) == <<e.reviewer_id, e.session_id>>

\* the position in `doc` of the entry a command addresses (0: none)
Addressed(doc, o) ==
    IF \E i \in 1..Len(doc.reviews) :
          EntryKey(doc.reviews[i]) = <<o.reviewer_id, o.session_id[1]>>
    THEN CHOOSE i \in 1..Len(doc.reviews) :
          EntryKey(doc.reviews[i]) = <<o.reviewer_id, o.session_id[1]>>
    ELSE 0

IsPrefix(a, b) == Len(a) <= Len(b) /\ SubSeq(b, 1, Len(a)) = a

\* every entry of d is still at its place in e, its notes log a prefix of
\* what e has there
NotesGrow(d, e) ==
    \A i \in 1..Len(d.reviews) :
        /\ i <= Len(e.reviews)
        /\ IsPrefix(d.reviews[i].notes, e.reviews[i].notes)

NotesOf(doc, i) == IF i = 0 THEN <<>> ELSE doc.reviews[i].notes

\* a process replaces the document (fs::rename has happened)
Commits(p) == pc[p] = "wr_rename" /\ pc'[p] = "rel_read"

\* C15: notes are append-only: at every step the notes log of every entry
\* is a prefix of its log after the step; an append-note that commits puts
\* exactly its note at the end of the addressed entry's log, and a commit
\* of any other operation leaves every log as it was.
C15_NotesAppendOnly ==
    [][/\ NotesGrow(shadow, shadow')
       /\ (sessionFile.st = "full" /\ sessionFile'.st = "full") =>
             NotesGrow(sessionFile.doc, sessionFile'.doc)
       /\ \A p \in Procs :
             (Commits(p) /\ sessionFile'.st = "full") =>
                 LET new == sessionFile'.doc
                     i == IF op[p].kind = "register" THEN 0
                          ELSE Addressed(new, op[p])
                 IN  /\ Len(new.reviews) >= Len(shadow.reviews)
                     /\ \A j \in 1..Len(shadow.reviews) :
                           new.reviews[j].notes =
                               IF op[p].kind = "note" /\ j = i
                               THEN Append(NotesOf(shadow, j),
                                       [role |-> op[p].role,
                                        timestamp |-> [rfc3339 |-> op[p].now],
                                        note_type |-> op[p].note_type,
                                        content |-> op[p].content])
                               ELSE NotesOf(shadow, j)]_vars

\* the second note has just been put behind the first
C15_Witness ==
    \E p \in Procs :
        /\ pc[p] = "rel_read" /\ op[p].kind = "note" /\ wrote[p]
        /\ sessionFile.st = "full"
        /\ Len(NotesOf(sessionFile.doc, 1)) = 2
        /\ NotesOf(sessionFile.doc, 1)[2].content = op[p].content
        /\ NotesOf(sessionFile.doc, 1)[1].content # op[p].content

\* step 2 of finalize: the report file is being created or written
InPhase2(p) == op[p].kind = "finalize" /\ pc[p] \in {"fin_create", "fin_write"}

\* C32: finalize holds no lock while it writes the report: the step-1
\* guard is gone before step 2 and the lock is asked for again, by a
\* process that holds none, for step 3; other writers take the lock during
\* step 2, and what they commit before step 3 (`shadow`, the committed
\* document) is in the document that finalize stores.
C32_FinalizeUnlockedReportWrite ==
    /\ [](\A p \in Procs :
            (InPhase2(p) \/ (pc[p] = "acquire" /\ stage[p] = 3))
                => ~guard[p] /\ ~MarkerOf(op[p].owner))
    /\ [][\A p \in Procs :
            (op[p].kind = "finalize" /\ pc[p] = "wr_rename"
                /\ sessionFile' # sessionFile)
            => /\ sessionFile'.st = "full"
               /\ Len(sessionFile'.doc.reviews) = Len(shadow.reviews)
               /\ \A i \in 1..Len(shadow.reviews) :
                     /\ NotesOf(sessionFile'.doc, i) = NotesOf(shadow, i)
                     /\ sessionFile'.doc.reviews[i].initiator_status
                           = shadow.reviews[i].initiator_status]_vars

\* while the reviewer's finalize writes its report, the applicator holds
\* the lock and has stored its change
C32_Witness ==
    \E p, q \in Procs :
        /\ InPhase2(p)
        /\ q # p /\ HoldsLock(q) /\ wrote[q]
        /\ op[q].kind \in {"note", "set_initiator"}

Identity(e) ==
    <<e.reviewer_id, e.session_id, e.target_ref, e.parent_id, e.started_at>>

\* every entry of d is at the same place in e with the same identity
EntriesKept(d, e) ==
    /\ Len(d.reviews) <= Len(e.reviews)
    /\ \A i \in 1..Len(d.reviews) :
          Identity(e.reviews[i]) = Identity(d.reviews[i])

\* C35: entries are never removed or re-identified: whenever the document
\* is replaced, reviews has grown at its end only, every entry is where it
\* was, and its reviewer_id, session_id, target_ref, parent_id and
\* started_at are what register gave it.
C35_EntriesStayAndKeepIdentity ==
    [][/\ (sessionFile.st = "full" /\ sessionFile'.st = "full") =>
             EntriesKept(sessionFile.doc, sessionFile'.doc)
       /\ \A p \in Procs :
             (Commits(p) /\ sessionFile'.st = "full") =>
                 /\ EntriesKept(shadow, sessionFile'.doc)
                 /\ Len(sessionFile'.doc.reviews) <= Len(shadow.reviews) + 1
                 /\ (op[p].kind # "register") =>
                       Len(sessionFile'.doc.reviews) = Len(shadow.reviews)]_vars

\* a second entry has been registered and the first one changed afterwards
C35_Witness ==
    /\ sessionFile.st = "full"
    /\ Len(sessionFile.doc.reviews) = 2
    /\ parse_ts(sessionFile.doc.reviews[1].updated_at)
          > parse_ts(sessionFile.doc.reviews[2].started_at)

Outcome(e) == <<e.verdict, e.report_file, e.finished_at>>

OutcomeUnset(e) == Outcome(e) = <<None, None, None>>

OutcomeSet(e) ==
    e.verdict # None /\ e.report_file # None /\ e.finished_at # None

\* C36: in every stored document each entry has verdict, report_file and
\* finished_at all set or all unset; register stores its new entry with
\* the three unset, finalize sets the three of the entry it addresses, and
\* no commit changes them on any other entry.
C36_OutcomeFieldsSetTogether ==
    /\ [](sessionFile.st = "full" =>
             \A i \in 1..Len(sessionFile.doc.reviews) :
                 \/ OutcomeUnset(sessionFile.doc.reviews[i])
                 \/ OutcomeSet(sessionFile.doc.reviews[i]))
    /\ [][\A p \in Procs :
            (Commits(p) /\ sessionFile'.st = "full") =>
                LET new == sessionFile'.doc
                IN  \A j \in 1..Len(new.reviews) :
                       IF j > Len(shadow.reviews)
                       THEN op[p].kind = "register"
                            /\ OutcomeUnset(new.reviews[j])
                       ELSE IF op[p].kind = "finalize"
                               /\ j = Addressed(new, op[p])
                       THEN /\ OutcomeUnset(shadow.reviews[j])
                            /\ new.reviews[j].verdict = Some(op[p].verdict)
                            /\ new.reviews[j].report_file = Some(ret[p][1])
                            /\ new.reviews[j].finished_at
                                  = Some([rfc3339 |-> op[p].now])
                       ELSE Outcome(new.reviews[j])
                               = Outcome(shadow.reviews[j])]_vars

\* a finalized entry that a later command has touched
C36_Witness ==
    /\ sessionFile.st = "full"
    /\ \E i \in 1..Len(sessionFile.doc.reviews) :
          LET e == sessionFile.doc.reviews[i]
          IN  /\ OutcomeSet(e)
              /\ parse_ts(e.updated_at) > parse_ts(e.finished_at[1])

----------------------------------------------------------------------------
(* SpecSeq: one process runs commands one after the other; `pre` is the    *)
(* document file as the running command found it.  The clock advances     *)
(* with every command.  The directory may hold a marker left behind by an  *)
(* earlier `lock acquire`.                                                 *)

SeqProc == "p1"

SeqClock == MaxSeqOps - todo + 1

SeqMenu(t) ==
    {RegisterOp(RevA, Some(Ses1), RefMain, None, t),
     RegisterOp(RevA, Some(Ses1), RefDev, None, t),
     RegisterOp(RevA, None, RefMain, None, t),
     RegisterOp(RevB, None, RefMain, Some(RevA), t),
     RegisterOp(RevB, Some(Ses2), RefDev, None, t),
     RegisterOp(RevA, Some(BadShort), RefMain, None, t),
     RegisterOp(BadChar, Some(Ses1), RefMain, None, t),
     UpdateOp(RevA, Ses1, Some("IN_PROGRESS"), Some(Some("INGESTION")), t),
     UpdateOp(RevA, Ses1, Some("CANCELLED"), None, t),
     UpdateOp(RevA, Ses1, None, Some(None), t),
     NoteOp(RevA, Ses1, "reviewer", "question", "why", t, RevA),
     SetInitiatorOp(RevA, Ses1, "OBSERVING", t, AppA),
     FinalizeOp(RevA, Ses1, "APPROVE", Counts1, ReportText, t),
     ReadOp}

SeqStart == \E o \in SeqMenu(SeqClock) : Invoke(SeqProc, o)

InitSeq ==
    /\ \E lock \in {NoLock, LockWith(writeln(AppA))} :
          InitWith(lock, MaxSeqOps)
    /\ windows \in BOOLEAN

NextSeq ==
    \/ SeqStart
    \/ acquire_lock(SeqProc)
    \/ acquire_write_owner(SeqProc)
    \/ locked_mutate(SeqProc)
    \/ register_read(SeqProc)
    \/ finalize_read(SeqProc)
    \/ finalize_create_report(SeqProc)
    \/ finalize_write_report(SeqProc)
    \/ finalize_update(SeqProc)
    \/ write_tmp_open(SeqProc)
    \/ write_tmp_body(SeqProc)
    \/ write_remove_dest(SeqProc)
    \/ write_rename(SeqProc)
    \/ release_inner(SeqProc)
    \/ release_remove(SeqProc)
    \/ load_session(SeqProc)

SpecSeq == InitSeq /\ [][NextSeq]_vars

\* the entry the returned register call asked for, in the document it found
PreEntry ==
    IF pre.st = "full" /\ op[SeqProc].kind = "register"
          /\ op[SeqProc].session_id # None
    THEN find_entry(pre.doc, op[SeqProc].reviewer_id,
                    op[SeqProc].session_id[1])
    ELSE 0

Returned(kind) == pc[SeqProc] = "idle" /\ op[SeqProc].kind = kind

\* C8: register is idempotent for an explicit (reviewerId, sessionId): a
\* call that repeats the arguments of the existing entry succeeds, returns
\* the same pair, leaves reviews as it was, entry by entry and field by
\* field, and at most appends reviewerId to reviewers.
C8_RegisterIdempotent ==
    (/\ Returned("register")
     /\ PreEntry # 0
     /\ pre.doc.reviews[PreEntry].target_ref = op[SeqProc].target_ref
     /\ pre.doc.reviews[PreEntry].parent_id = op[SeqProc].parent_id)
    => /\ result[SeqProc] = "ok"
       /\ ret[SeqProc]
             = <<op[SeqProc].reviewer_id, op[SeqProc].session_id[1]>>
       /\ sessionFile.st = "full"
       /\ sessionFile.doc.reviews = pre.doc.reviews
       /\ \/ sessionFile.doc.reviewers = pre.doc.reviewers
          \/ /\ ~Contains(pre.doc.reviewers, op[SeqProc].reviewer_id)
             /\ sessionFile.doc.reviewers
                   = Append(pre.doc.reviewers, op[SeqProc].reviewer_id)

\* the repeated register has returned for an entry that has moved on since
\* it was created
C8_Witness ==
    /\ Returned("register")
    /\ PreEntry # 0
    /\ pre.doc.reviews[PreEntry].target_ref = op[SeqProc].target_ref
    /\ pre.doc.reviews[PreEntry].status # "INITIALIZING"
    /\ pre.doc.reviews[PreEntry].updated_at
          # pre.doc.reviews[PreEntry].started_at
    /\ op[SeqProc].now # parse_ts(pre.doc.reviews[PreEntry].updated_at)
    /\ result[SeqProc] = "ok"

\* C9: register for a (reviewerId, sessionId) whose entry has another
\* target_ref fails with Conflict and the document file is left as it was:
\* no entry added, the entry's target_ref unchanged.
C9_RegisterTargetConflict ==
    (/\ Returned("register")
     /\ PreEntry # 0
     /\ pre.doc.reviews[PreEntry].target_ref # op[SeqProc].target_ref)
    => /\ result[SeqProc] = "Conflict"
       /\ sessionFile = pre
       /\ Len(sessionFile.doc.reviews) = Len(pre.doc.reviews)
       /\ sessionFile.doc.reviews[PreEntry].target_ref
             = pre.doc.reviews[PreEntry].target_ref

\* a register for RevA/Ses1 on another ref has returned Conflict
C9_Witness ==
    /\ Returned("register")
    /\ PreEntry # 0
    /\ pre.doc.reviews[PreEntry].target_ref # op[SeqProc].target_ref
    /\ result[SeqProc] = "Conflict"

Range(seq) == {seq[i] : i \in 1..Len(seq)}

\* C11: in every document on disk, reviewers holds exactly the reviewer
\* ids that occur in reviews, each of them once.
C11_ReviewersAreTheReviewIds ==
    sessionFile.st = "full" =>
        /\ Range(sessionFile.doc.reviewers)
              = {sessionFile.doc.reviews[i].reviewer_id :
                    i \in 1..Len(sessionFile.doc.reviews)}
        /\ Cardinality(Range(sessionFile.doc.reviewers))
              = Len(sessionFile.doc.reviewers)

\* one reviewer has two entries (two sessions) and is listed once, next to
\* nothing else
C11_Witness ==
    /\ sessionFile.st = "full"
    /\ Len(sessionFile.doc.reviews) = 2
    /\ sessionFile.doc.reviews[1].reviewer_id
          = sessionFile.doc.reviews[2].reviewer_id
    /\ sessionFile.doc.reviewers = <<sessionFile.doc.reviews[1].reviewer_id>>

EntryFields ==
    {"reviewer_id", "session_id", "target_ref", "initiator_status", "status",
     "parent_id", "started_at", "updated_at", "finished_at", "current_phase",
     "verdict", "counts", "report_file", "notes"}

\* the command that has returned changed, in the document it found, at most
\* the fields `changed` of the entry at position i
OnlyChanged(i, changed) ==
    /\ sessionFile.st = "full"
    /\ sessionFile.doc.reviewers = pre.doc.reviewers
    /\ Len(sessionFile.doc.reviews) = Len(pre.doc.reviews)
    /\ \A j \in 1..Len(pre.doc.reviews) :
          j # i => sessionFile.doc.reviews[j] = pre.doc.reviews[j]
    /\ \A f \in EntryFields \ changed :
          sessionFile.doc.reviews[i][f] = pre.doc.reviews[i][f]

\* C13: set-initiator-status sets initiator_status and updated_at of the
\* addressed entry and changes nothing else: not the entry's status,
\* current_phase, verdict, counts, report_file or notes, and no other entry.
C13_SetInitiatorFrame ==
    (Returned("set_initiator") /\ result[SeqProc] = "ok") =>
        LET i == Addressed(pre.doc, op[SeqProc])
        IN  /\ pre.st = "full" /\ i # 0
            /\ OnlyChanged(i, {"initiator_status", "updated_at"})
            /\ sessionFile.doc.reviews[i].initiator_status
                  = op[SeqProc].initiator_status
            /\ sessionFile.doc.reviews[i].updated_at.rfc3339 = op[SeqProc].now

\* the applicator has set the status of one of two entries, one that the
\* reviewer had moved on
C13_Witness ==
    /\ Returned("set_initiator") /\ result[SeqProc] = "ok"
    /\ Len(pre.doc.reviews) = 2
    /\ \E i \in 1..2 :
          /\ pre.doc.reviews[i].initiator_status
                # sessionFile.doc.reviews[i].initiator_status
          /\ pre.doc.reviews[i].updated_at
                # sessionFile.doc.reviews[i].updated_at

\* C14: update sets status only when one is supplied, current_phase only
\* when a phase or an explicit clear is supplied, updated_at always, and
\* changes nothing else: not initiator_status, verdict, counts, report_file
\* or notes, and no other entry.
C14_UpdateIsPartial ==
    (Returned("update") /\ result[SeqProc] = "ok") =>
        LET i == Addressed(pre.doc, op[SeqProc])
            o == op[SeqProc]
        IN  /\ pre.st = "full" /\ i # 0
            /\ OnlyChanged(i, {"status", "current_phase", "updated_at"})
            /\ sessionFile.doc.reviews[i].status
                  = IF o.status = None THEN pre.doc.reviews[i].status
                    ELSE o.status[1]
            /\ sessionFile.doc.reviews[i].current_phase
                  = IF o.phase = None THEN pre.doc.reviews[i].current_phase
                    ELSE o.phase[1]
            /\ sessionFile.doc.reviews[i].updated_at.rfc3339 = o.now

\* an update that supplies a status and no phase has returned for an entry
\* whose phase was set
C14_Witness ==
    /\ Returned("update") /\ result[SeqProc] = "ok"
    /\ op[SeqProc].phase = None /\ op[SeqProc].status # None
    /\ pre.doc.reviews[Addressed(pre.doc, op[SeqProc])].current_phase # None
    /\ pre.doc.reviews[Addressed(pre.doc, op[SeqProc])].status
          # op[SeqProc].status[1]

EntryCommands == {"update", "note", "set_initiator", "finalize"}

\* C16: update, append-note, set-initiator-status and finalize addressed to
\* a (reviewerId, sessionId) without an entry in the document fail with
\* NotFound and leave the document as it was; a report file is created
\* only while the document holds the entry the running finalize addresses.
C16_MissingEntryNotFound ==
    /\ []((/\ pc[SeqProc] = "idle"
           /\ op[SeqProc].kind \in EntryCommands
           /\ pre.st = "full"
           /\ Addressed(pre.doc, op[SeqProc]) = 0)
          => (result[SeqProc] = "NotFound" /\ sessionFile = pre))
    /\ [][reportFiles' # reportFiles =>
             /\ op[SeqProc].kind = "finalize"
             /\ sessionFile.st = "full"
             /\ Addressed(sessionFile.doc, op[SeqProc]) # 0]_vars

\* a finalize for a pair that has no entry, in a document that has another
\* entry of the same reviewer, has returned NotFound and there is no report
C16_Witness ==
    /\ Returned("finalize") /\ result[SeqProc] = "NotFound"
    /\ pre.st = "full"
    /\ Addressed(pre.doc, op[SeqProc]) = 0
    /\ \E i \in 1..Len(pre.doc.reviews) :
          pre.doc.reviews[i].reviewer_id = op[SeqProc].reviewer_id
    /\ DOMAIN reportFiles = {}

\* every identifier a command carries is 8 ASCII alphanumeric characters
WellFormedIds(o) ==
    /\ validate_id8(o.reviewer_id)
    /\ validate_id8(o.owner)
    /\ o.session_id # None => validate_id8(o.session_id[1])
    /\ o.parent_id # None => validate_id8(o.parent_id[1])

\* C17: a command that carries a malformed reviewer id, session id, parent
\* id or lock owner fails with IdentifierInvalid before any I/O: it never
\* asks for the lock and never reads or writes the document, register with
\* a malformed explicit session id included.
C17_IdsValidatedBeforeIO ==
    (op[SeqProc].kind \in SessionKinds /\ ~WellFormedIds(op[SeqProc])) =>
        /\ pc[SeqProc] = "idle"
        /\ result[SeqProc] = "IdentifierInvalid"

OpenStatuses == {"INITIALIZING", "IN_PROGRESS", "BLOCKED"}

\* the document the returned command found (a new one if there was no file)
PreDoc == IF pre.st = "full" THEN pre.doc ELSE NewSessionFile

OpenFor(doc, target_ref) ==
    {i \in 1..Len(doc.reviews) :
        /\ doc.reviews[i].target_ref = target_ref
        /\ doc.reviews[i].status \in OpenStatuses}

\* C20: register without a session id returns the session id of an open
\* entry (Initializing, InProgress, Blocked) for the same target_ref if
\* there is one, and a freshly minted id otherwise, so never the session
\* of a terminal entry; the entry it adds has that session id and status
\* Initializing.
C20_RegisterJoinsOpenSession ==
    (/\ Returned("register") /\ result[SeqProc] = "ok"
     /\ op[SeqProc].session_id = None)
    => LET o == op[SeqProc]
           open == OpenFor(PreDoc, o.target_ref)
           sid == ret[SeqProc][2]
           new == sessionFile.doc.reviews
       IN  /\ open # {} =>
                 \E i \in open : PreDoc.reviews[i].session_id = sid
           /\ open = {} => sid \in random_id8
           /\ Len(new) > Len(PreDoc.reviews) =>
                 /\ Len(new) = Len(PreDoc.reviews) + 1
                 /\ new[Len(new)].status = "INITIALIZING"
                 /\ new[Len(new)].session_id = sid
                 /\ new[Len(new)].reviewer_id = o.reviewer_id
                 /\ new[Len(new)].target_ref = o.target_ref
           /\ Len(new) > Len(PreDoc.reviews)
                 <=> \A i \in 1..Len(PreDoc.reviews) :
                        EntryKey(PreDoc.reviews[i]) # <<o.reviewer_id, sid>>

\* a register without session id has found only a terminal entry for its
\* target and has opened a new session next to it
C20_Witness ==
    /\ Returned("register") /\ result[SeqProc] = "ok"
    /\ op[SeqProc].session_id = None
    /\ Len(PreDoc.reviews) = 1
    /\ PreDoc.reviews[1].target_ref = op[SeqProc].target_ref
    /\ is_terminal(PreDoc.reviews[1].status)
    /\ Len(sessionFile.doc.reviews) = 2
    /\ sessionFile.doc.reviews[2].session_id # PreDoc.reviews[1].session_id

\* a second reviewer has joined the open session of the first
C20_Joined ==
    /\ Returned("register") /\ result[SeqProc] = "ok"
    /\ op[SeqProc].session_id = None
    /\ Len(PreDoc.reviews) = 1
    /\ PreDoc.reviews[1].reviewer_id # op[SeqProc].reviewer_id
    /\ Len(sessionFile.doc.reviews) = 2
    /\ sessionFile.doc.reviews[2].session_id = PreDoc.reviews[1].session_id

\* C28: a successful finalize leaves the addressed entry Finished, in
\* phase ReportWriting, with the verdict and the counts of the call, its
\* report_file set, finished_at = updated_at = the time of the call; the
\* entry's initiator_status, notes, target_ref and started_at and every
\* other entry are as before, and the report file of the result exists.
C28_FinalizeSetsTheEntry ==
    (Returned("finalize") /\ result[SeqProc] = "ok") =>
        LET i == Addressed(pre.doc, op[SeqProc])
            o == op[SeqProc]
            e == sessionFile.doc.reviews[i]
        IN  /\ pre.st = "full" /\ i # 0
            /\ OnlyChanged(i, {"status", "current_phase", "verdict", "counts",
                               "report_file", "finished_at", "updated_at"})
            /\ e.status = "FINISHED"
            /\ e.current_phase = <<"REPORT_WRITING">>
            /\ e.verdict = <<o.verdict>>
            /\ e.counts = o.counts
            /\ e.report_file = <<ret[SeqProc][1]>>
            /\ e.finished_at = <<[rfc3339 |-> o.now]>>
            /\ e.updated_at = [rfc3339 |-> o.now]
            /\ ret[SeqProc][1] \in DOMAIN reportFiles
            /\ reportFiles[ret[SeqProc][1]] = o.report_markdown \o <<"\n">>

\* finalize has returned for an entry that carried a note and was started
\* at an earlier time
C28_Witness ==
    /\ Returned("finalize") /\ result[SeqProc] = "ok"
    /\ Len(sessionFile.doc.reviews) = 1
    /\ Len(sessionFile.doc.reviews[1].notes) = 1
    /\ sessionFile.doc.reviews[1].started_at
          # sessionFile.doc.reviews[1].updated_at

\* the status an entry had in the document the command found
WasTerminal(j) == is_terminal(pre.doc.reviews[j].status)

SeqCommits == Commits(SeqProc) /\ sessionFile'.st = "full" /\ pre.st = "full"

\* C37: terminal statuses are absorbing: a command that replaces the
\* document leaves every entry that was Finished, Cancelled or Error with
\* a terminal status, and in every stored document an entry whose
\* report_file is set has status Finished.
C37_TerminalIsAbsorbing ==
    /\ [](sessionFile.st = "full" =>
             \A i \in 1..Len(sessionFile.doc.reviews) :
                 sessionFile.doc.reviews[i].report_file # None
                     => sessionFile.doc.reviews[i].status = "FINISHED")
    /\ [][SeqCommits =>
            \A j \in 1..Len(pre.doc.reviews) :
                WasTerminal(j) =>
                    is_terminal(sessionFile'.doc.reviews[j].status)]_vars

\* what holds instead: the status of an entry that was terminal is changed
\* by an update that names a status, which stores the status it names,
\* and by the finalize of an entry without report, which stores Finished
C37_OnlyUpdateLeavesTerminal ==
    [][SeqCommits =>
         \A j \in 1..Len(pre.doc.reviews) :
             (/\ WasTerminal(j)
              /\ sessionFile'.doc.reviews[j].status
                    # pre.doc.reviews[j].status)
                 => \/ /\ op[SeqProc].kind = "update"
                       /\ op[SeqProc].status
                             = Some(sessionFile'.doc.reviews[j].status)
                    \/ /\ op[SeqProc].kind = "finalize"
                       /\ pre.doc.reviews[j].report_file = None
                       /\ sessionFile'.doc.reviews[j].status
                             = "FINISHED"]_vars

----------------------------------------------------------------------------
(* SpecLock: the CLI's `lock acquire` and `lock release`, each process     *)
(* with its own token.  The directory may start with a marker left by an   *)
(* earlier `lock acquire` of p1 or of a process that is gone.              *)

LockMenu(p) ==
    {LockAcquireOp(Token(p), r) : r \in 0..MaxRetries}
        \cup {LockReleaseOp(Token(p))}

LockStart(p) == \E o \in LockMenu(p) : Invoke(p, o)

InitLock ==
    /\ \E lock \in {NoLock, LockWith(writeln(RevA)), LockWith(writeln(Hex1))} :
          InitWith(lock, MaxOps)
    /\ windows = FALSE

NextLock ==
    \E p \in Procs :
        \/ LockStart(p)
        \/ acquire_lock(p)
        \/ acquire_write_owner(p)
        \/ release_inner(p)
        \/ release_remove(p)

SpecLock == InitLock /\ [][NextLock]_vars

Releasing(p) == op[p].kind = "lock_release" /\ pc[p] # "idle"

\* C3: release deletes the marker exactly when the marker exists and its
\* stored token is the caller's: a marker disappears only in the removal
\* step of a release whose token it stores; a release that reads its own
\* token goes on to remove the marker and any other release leaves the
\* marker as it is; every release returns OK with no marker of its token
\* on disk.
C3_ReleaseOnOwnerMatch ==
    [][/\ (lockFile.exists /\ ~lockFile'.exists) =>
             \E p \in Procs :
                 /\ Releasing(p) /\ pc[p] = "rel_remove" /\ pc'[p] = "idle"
                 /\ MarkerOf(op[p].owner)
       /\ \A p \in Procs :
             (Releasing(p) /\ pc[p] = "rel_read" /\ pc'[p] # "rel_read") =>
                 /\ lockFile' = lockFile
                 /\ IF MarkerOf(op[p].owner)
                    THEN pc'[p] = "rel_remove"
                    ELSE pc'[p] = "idle"
       /\ \A p \in Procs :
             (Releasing(p) /\ pc'[p] = "idle") =>
                 /\ result'[p] = "ok"
                 /\ ~(lockFile'.exists
                        /\ trim_end(lockFile'.body) = op[p].owner)
                 /\ pc[p] = "rel_read" => lockFile' = lockFile]_vars

\* a release has returned OK while a marker with another token stays
C3_Witness ==
    \E p \in Procs :
        /\ op[p].kind = "lock_release" /\ pc[p] = "idle"
        /\ result[p] = "ok"
        /\ lockFile.exists /\ trim_end(lockFile.body) \in Owners \ {op[p].owner}
        /\ \E q \in Procs \ {p} :
              op[q].kind = "lock_release" /\ pc[q] = "idle"

----------------------------------------------------------------------------
(* SpecRace: two processes ask for a free lock at the same time; when both *)
(* calls have returned the winner releases, then the loser asks again and  *)
(* releases in its turn.                                                   *)

Racers == {"p1", "p2"}

RaceCalls == MaxRaceOps - todo

BothReturned ==
    \A q \in Racers : pc[q] = "idle" /\ result[q] \in {"ok", "LockTimeout"}

RaceAcquire(p) ==
    /\ result[p] = "none"
    /\ \E r \in 0..MaxRetries : Invoke(p, LockAcquireOp(Token(p), r))

RaceRelease(p) ==
    /\ op[p].kind = "lock_acquire" /\ result[p] = "ok"
    /\ BothReturned
    /\ Invoke(p, LockReleaseOp(Token(p)))

Released(p) ==
    op[p].kind = "lock_release" /\ pc[p] = "idle" /\ result[p] = "ok"

RaceRetry(q) ==
    /\ op[q].kind = "lock_acquire" /\ result[q] = "LockTimeout"
    /\ \E p \in Racers \ {q} : Released(p)
    /\ \E r \in 0..MaxRetries : Invoke(q, LockAcquireOp(Token(q), r))

InitRace ==
    /\ InitWith(NoLock, MaxRaceOps)
    /\ windows = FALSE

NextRace ==
    \E p \in Racers :
        \/ RaceAcquire(p)
        \/ RaceRelease(p)
        \/ RaceRetry(p)
        \/ acquire_lock(p)
        \/ acquire_write_owner(p)
        \/ release_inner(p)
        \/ release_remove(p)

SpecRace == InitRace /\ [][NextRace]_vars

\* C2: of two concurrent acquirers of a free lock exactly one succeeds and
\* the other fails with LockTimeout; once the winner has released, the
\* loser's new acquire succeeds.
C2_OneWinnerThenLoserAcquires ==
    /\ (RaceCalls = 2 /\ BothReturned) =>
          \E w \in Racers :
              /\ result[w] = "ok"
              /\ \A l \in Racers \ {w} : result[l] = "LockTimeout"
    /\ \A l \in Racers :
          (/\ RaceCalls >= 4
           /\ op[l].kind = "lock_acquire" /\ pc[l] = "idle")
          => result[l] = "ok" /\ MarkerOf(op[l].owner)

\* the loser of the first round holds the lock after the winner's release
C2_Witness ==
    \E w, l \in Racers :
        /\ w # l
        /\ Released(w)
        /\ op[l].kind = "lock_acquire" /\ op[l].max_retries = 0
        /\ pc[l] = "idle" /\ result[l] = "ok"
        /\ MarkerOf(op[l].owner)

----------------------------------------------------------------------------
(* SpecPair: two processes act for the same reviewer RevA at the same time *)
(* (the same lock owner token, the same temporary file name).              *)

PairProcs == {"p1", "p2"}

PairNow(p) == IF p = "p1" THEN 1 ELSE 2

PairMenu(t) ==
    {RegisterOp(RevA, Some(Ses1), RefMain, None, t),
     RegisterOp(RevA, None, RefMain, None, t),
     UpdateOp(RevA, Ses1, Some("CANCELLED"), None, t),
     FinalizeOp(RevA, Ses1, "APPROVE", Counts1, ReportText, t)}

PairStart(p) == \E o \in PairMenu(PairNow(p)) : Invoke(p, o)

InitPair ==
    /\ InitWith(NoLock, MaxOps)
    /\ windows \in BOOLEAN

NextPair ==
    \E p \in PairProcs :
        \/ PairStart(p)
        \/ acquire_lock(p)
        \/ acquire_write_owner(p)
        \/ locked_mutate(p)
        \/ register_read(p)
        \/ finalize_read(p)
        \/ finalize_create_report(p)
        \/ finalize_write_report(p)
        \/ finalize_update(p)
        \/ write_tmp_open(p)
        \/ write_tmp_body(p)
        \/ write_remove_dest(p)
        \/ write_rename(p)
        \/ release_inner(p)
        \/ release_remove(p)

SpecPair == InitPair /\ [][NextPair]_vars

\* C12: in every document on disk no two entries of reviews have the same
\* (reviewer_id, session_id), also when register calls for one pair run
\* at the same time.
C12_EntryKeysUnique ==
    sessionFile.st = "full" =>
        \A i, j \in 1..Len(sessionFile.doc.reviews) :
            i # j => EntryKey(sessionFile.doc.reviews[i])
                        # EntryKey(sessionFile.doc.reviews[j])

\* both processes have registered the same pair with success and the
\* document holds it once
C12_Witness ==
    /\ \A p \in PairProcs :
          /\ pc[p] = "idle" /\ op[p].kind = "register" /\ result[p] = "ok"
          /\ todo = MaxOps - 2
    /\ ret["p1"] = ret["p2"]
    /\ sessionFile.st = "full"
    /\ Len(sessionFile.doc.reviews) = 1

FinalizeEnded(p, res) ==
    op[p].kind = "finalize" /\ pc[p] = "idle" /\ result[p] = res

\* C33: of finalize calls for one entry that run at the same time, at most
\* one succeeds: all that pass step 1 compute the same report name, the
\* exclusive create admits one, and a call that finds the file fails and
\* changes neither the document nor the report.
C33_OneFinalizeWins ==
    /\ [](~(\A p \in PairProcs : FinalizeEnded(p, "ok")))
    /\ [](\A p, q \in PairProcs :
            (InPhase2(p) /\ InPhase2(q)) => ret[p] = ret[q])
    /\ [][\A p \in PairProcs :
            (pc[p] = "fin_create" /\ pc'[p] # "fin_create"
                /\ ret[p][1] \in DOMAIN reportFiles)
            => /\ pc'[p] = "idle" /\ result'[p] = "IOError"
               /\ reportFiles' = reportFiles
               /\ sessionFile' = sessionFile]_vars

\* both calls had passed step 1; one has finished the entry, the other has
\* been refused by the exclusive create
C33_Witness ==
    /\ FinalizeEnded("p1", "ok") /\ FinalizeEnded("p2", "IOError")
    /\ sessionFile.st = "full"
    /\ sessionFile.doc.reviews[1].status = "FINISHED"
    /\ sessionFile.doc.reviews[1].updated_at = [rfc3339 |-> PairNow("p1")]
    /\ reportFiles[ret["p1"][1]] = ReportText \o <<"\n">>

----------------------------------------------------------------------------
(* SpecRetry: reviewer RevA (p1) registers and then runs one command on    *)
(* its entry, while p2 takes the lock with `lock acquire` and gives it     *)
(* back with `lock release`.  A call of p1 that returned LOCK_TIMEOUT is   *)
(* repeated, with the clock advanced, once the marker is gone.             *)

Caller == "p1"
Holder == "p2"

FirstTime == 1
RetryTime == 2

EntryCalls(t) ==
    {UpdateOp(RevA, Ses1, Some("IN_PROGRESS"), None, t),
     NoteOp(RevA, Ses1, "reviewer", "question", "why", t, RevA),
     SetInitiatorOp(RevA, Ses1, "OBSERVING", t, RevA),
     FinalizeOp(RevA, Ses1, "APPROVE", Counts1, ReportText, t)}

CallerRegisters ==
    /\ result[Caller] = "none"
    /\ Invoke(Caller, RegisterOp(RevA, Some(Ses1), RefMain, None, FirstTime))

CallerGoesOn ==
    /\ op[Caller].kind = "register" /\ result[Caller] = "ok"
    /\ \E o \in EntryCalls(FirstTime) : Invoke(Caller, o)

CallerRepeats ==
    /\ result[Caller] = "LockTimeout"
    /\ ~lockFile.exists
    /\ Invoke(Caller, [op[Caller] EXCEPT !.now = RetryTime])

HolderAcquires ==
    /\ result[Holder] = "none"
    /\ Invoke(Holder, LockAcquireOp(Token(Holder), 0))

HolderReleases ==
    /\ op[Holder].kind = "lock_acquire" /\ result[Holder] = "ok"
    /\ Invoke(Holder, LockReleaseOp(Token(Holder)))

InitRetry ==
    /\ InitWith(NoLock, MaxRetryOps)
    /\ windows \in BOOLEAN

NextRetry ==
    \/ CallerRegisters
    \/ CallerGoesOn
    \/ CallerRepeats
    \/ HolderAcquires
    \/ HolderReleases
    \/ \E p \in {Caller, Holder} :
          \/ acquire_lock(p)
          \/ acquire_write_owner(p)
          \/ release_inner(p)
          \/ release_remove(p)
    \/ locked_mutate(Caller)
    \/ register_read(Caller)
    \/ finalize_read(Caller)
    \/ finalize_create_report(Caller)
    \/ finalize_write_report(Caller)
    \/ finalize_update(Caller)
    \/ write_tmp_open(Caller)
    \/ write_tmp_body(Caller)
    \/ write_remove_dest(Caller)
    \/ write_rename(Caller)

SpecRetry == InitRetry /\ [][NextRetry]_vars

\* C18: LockTimeout is retryable: a call that failed with LockTimeout and
\* is repeated once the lock is free succeeds, as a first call would have
\* (every first call of this scenario succeeds unless it times out).
C18_LockTimeoutRetryable ==
    (pc[Caller] = "idle" /\ op[Caller].now = RetryTime) =>
        result[Caller] = "ok"

\* the same, for every command but a finalize that timed out in step 3
C18_RetryableBeforeTheReport ==
    (/\ pc[Caller] = "idle" /\ op[Caller].now = RetryTime
     /\ ~(op[Caller].kind = "finalize" /\ result[Caller] = "IOError"))
    => result[Caller] = "ok"

----------------------------------------------------------------------------
(* SpecCrash: reviewer RevA (p1) runs a command and may die while it holds *)
(* the lock: by a panic that unwinds, which drops the guard, or by being   *)
(* killed, which runs nothing more and leaves the marker.  After a kill an *)
(* operator (p3) may run `lock release` with the dead process's token.     *)
(* A second process (p2) with its own token asks for the lock and asks     *)
(* again whenever it gets LOCK_TIMEOUT.                                    *)

Mutator == "p1"
Second == "p2"
Operator == "p3"

\* acquire_lock has returned the guard and the guard has not let go yet
HoldsGuard(p) ==
    \/ pc[p] \in LockedPcs \ {"write_owner", "rel_remove"}
    \/ pc[p] = "rel_read" /\ guard[p]

MutatorStarts ==
    /\ result[Mutator] = "none"
    /\ \E o \in ReviewerMenu(Token(Mutator), FirstTime) : Invoke(Mutator, o)

\* a panic inside the locked block unwinds: Drop for LockGuard runs
Panic(p) ==
    /\ HoldsGuard(p) /\ pc[p] # "rel_read"
    /\ pc' = [pc EXCEPT ![p] = "rel_read"]
    /\ result' = [result EXCEPT ![p] = "Panic"]
    /\ UNCHANGED <<fsvars, op, mem, guard, attempt, wait_ms, stage, windows,
                   ret, todo, hist>>

\* the process is killed: no destructor runs
Kill(p) ==
    /\ HoldsGuard(p)
    /\ pc' = [pc EXCEPT ![p] = "dead"]
    /\ result' = [result EXCEPT ![p] = "Killed"]
    /\ UNCHANGED <<fsvars, op, mem, guard, attempt, wait_ms, stage, windows,
                   ret, todo, hist>>

SecondStarts ==
    /\ result[Second] = "none"
    /\ \E r \in 0..MaxRetries :
          Invoke(Second, LockAcquireOp(Token(Second), r))

\* the same `lock acquire` once more
SecondRetries ==
    /\ pc[Second] = "idle" /\ result[Second] = "LockTimeout"
    /\ pc' = [pc EXCEPT ![Second] = "acquire"]
    /\ result' = [result EXCEPT ![Second] = "running"]
    /\ UNCHANGED <<fsvars, op, mem, guard, attempt, wait_ms, stage, windows,
                   ret, todo, hist>>

OperatorReleases ==
    /\ result[Operator] = "none"
    /\ pc[Mutator] = "dead"
    /\ Invoke(Operator, LockReleaseOp(op[Mutator].owner))

SecondStep ==
    \/ SecondStarts
    \/ SecondRetries
    \/ acquire_lock(Second)
    \/ acquire_write_owner(Second)

InitCrash ==
    /\ InitWith(NoLock, Cardinality(Procs))
    /\ windows \in BOOLEAN

NextCrash ==
    \/ MutatorStarts
    \/ Panic(Mutator)
    \/ Kill(Mutator)
    \/ OperatorReleases
    \/ SecondStep
    \/ acquire_lock(Mutator)
    \/ acquire_write_owner(Mutator)
    \/ locked_mutate(Mutator)
    \/ register_read(Mutator)
    \/ finalize_read(Mutator)
    \/ write_tmp_open(Mutator)
    \/ write_tmp_body(Mutator)
    \/ write_rename(Mutator)
    \/ \E p \in {Mutator, Operator} :
          \/ release_inner(p)
          \/ release_remove(p)

\* a running process keeps taking steps
SpecCrash == InitCrash /\ [][NextCrash]_vars /\ WF_vars(SecondStep)

\* the dead mutator's lock has ended: its guard was dropped while the panic
\* unwound, or `lock release` with its token has returned
OriginalLockEnded ==
    \/ pc[Mutator] = "idle" /\ result[Mutator] = "Panic"
    \/ pc[Mutator] = "dead" /\ Released(Operator)

SecondHoldsLock ==
    /\ pc[Second] = "idle" /\ result[Second] = "ok"
    /\ MarkerOf(Token(Second))

----------------------------------------------------------------------------
(* SpecJoin: a first reviewer opens a session for a target, the applicator *)
(* marks its entry, the reviewer may cancel, and a second reviewer         *)
(* registers for the same target: in the same session, in another one, or  *)
(* without naming a session.                                               *)

JoinClock == MaxJoinOps - todo + 1

JoinMenu(t) ==
    {RegisterOp(RevA, Some(Ses1), RefMain, None, t),
     SetInitiatorOp(RevA, Ses1, "APPLIED", t, AppA),
     UpdateOp(RevA, Ses1, Some("CANCELLED"), None, t),
     RegisterOp(RevB, Some(Ses1), RefMain, None, t),
     RegisterOp(RevB, Some(Ses2), RefMain, None, t),
     RegisterOp(RevB, None, RefMain, None, t)}

JoinStart == \E o \in JoinMenu(JoinClock) : Invoke(SeqProc, o)

InitJoin ==
    /\ InitWith(NoLock, MaxJoinOps)
    /\ windows \in BOOLEAN

NextJoin ==
    \/ JoinStart
    \/ acquire_lock(SeqProc)
    \/ acquire_write_owner(SeqProc)
    \/ locked_mutate(SeqProc)
    \/ register_read(SeqProc)
    \/ write_tmp_open(SeqProc)
    \/ write_tmp_body(SeqProc)
    \/ write_remove_dest(SeqProc)
    \/ write_rename(SeqProc)
    \/ release_inner(SeqProc)
    \/ release_remove(SeqProc)

SpecJoin == InitJoin /\ [][NextJoin]_vars

\* the returned register call has appended an entry
Appended ==
    /\ Returned("register") /\ result[SeqProc] = "ok"
    /\ Len(sessionFile.doc.reviews) = Len(PreDoc.reviews) + 1

LastEntry == sessionFile.doc.reviews[Len(sessionFile.doc.reviews)]

\* the entries the call found for its target and the session it ended in
SameSession ==
    {i \in 1..Len(PreDoc.reviews) :
        /\ PreDoc.reviews[i].target_ref = op[SeqProc].target_ref
        /\ PreDoc.reviews[i].session_id = ret[SeqProc][2]}

StillOpen == {i \in SameSession : PreDoc.reviews[i].status \in OpenStatuses}

\* C21: a newly registered entry takes its initiator_status from a
\* still-open entry with the same (target_ref, session_id), and is
\* Requesting when there is no still-open entry with that pair.
C21_InheritsFromOpenEntry ==
    Appended =>
        IF StillOpen = {}
        THEN LastEntry.initiator_status = "REQUESTING"
        ELSE \E i \in StillOpen :
                LastEntry.initiator_status = PreDoc.reviews[i].initiator_status

\* what the code does: the first entry with the pair, open or not
C21_InheritsFromFirstEntry ==
    Appended =>
        IF SameSession = {}
        THEN LastEntry.initiator_status = "REQUESTING"
        ELSE \E i \in SameSession :
                /\ \A j \in SameSession : i <= j
                /\ LastEntry.initiator_status =
                      PreDoc.reviews[i].initiator_status

\* C22: a new entry never inherits from another session: when no entry has
\* both its target_ref and its session_id, it is Requesting, whatever the
\* initiator_status of the entries of other sessions for the target.
C22_NoInheritanceAcrossSessions ==
    (Appended /\ SameSession = {}) =>
        LastEntry.initiator_status = "REQUESTING"

\* the target has an entry in another session that is not Requesting, and
\* the new entry has been appended next to it
C22_Witness ==
    /\ Appended /\ SameSession = {}
    /\ \E i \in 1..Len(PreDoc.reviews) :
          /\ PreDoc.reviews[i].target_ref = op[SeqProc].target_ref
          /\ PreDoc.reviews[i].session_id # ret[SeqProc][2]
          /\ PreDoc.reviews[i].initiator_status # "REQUESTING"

----------------------------------------------------------------------------
(* main.rs: wait_for_reviews.  The three binaries carry their own copy:    *)
(* code-review tests session_file().exists() before it loads, the copies   *)
(* of apply-code-review and perform-code-review load at once.              *)

WAIT_DELAY_MS == 1000
WAIT_MAX_DELAY_MS == 60000

\* `wait --target-ref .. --session-id ..` of one of the binaries
WaitOp(target_ref, session_id, binary) ==
    [NoOp EXCEPT !.kind = "wait", !.target_filter = target_ref,
                 !.session_id = session_id, !.binary = binary]

\* target_ref.is_some() || session_id.is_some()
should_wait_for_session(o) == o.target_filter # None \/ o.session_id # None

\* the loop body's first call
WaitLoop(o) == IF o.binary = "code-review" THEN "wait_exists" ELSE "wait_load"

\* the scan without its two `continue`s
has_pending_unfiltered(doc, o) ==
    \E i \in 1..Len(doc.reviews) : ~is_terminal(doc.reviews[i].status)

\* for r in session_data.reviews { .. has_pending = true; break }
has_pending(doc, o) ==
    \E i \in 1..Len(doc.reviews) :
        /\ o.target_filter # None =>
              doc.reviews[i].target_ref = o.target_filter[1]
        /\ o.session_id # None =>
              doc.reviews[i].session_id = o.session_id[1]
        /\ ~is_terminal(doc.reviews[i].status)

\* std::cmp::min(delay.saturating_mul(2), max_delay)
next_delay(d) == Min(saturating_mul(d, 2), WAIT_MAX_DELAY_MS)

\* a loop that leaves its own marker in the session directory
wait_marks(p) ==
    /\ lockFile' = LockWith(writeln(Token(p)))
    /\ UNCHANGED <<sessionFile, tmpFile, reportFiles>>

\* what the loop does to the session directory: it only reads _session.json
wait_files(p) == UNCHANGED fsvars

\* the command starts: delay = 1 s, then the loop
wait_for_reviews(p, o) ==
    /\ pc[p] = "idle"
    /\ todo > 0
    /\ todo' = todo - 1
    /\ op' = [op EXCEPT ![p] = o]
    /\ wait_ms' = [wait_ms EXCEPT ![p] = WAIT_DELAY_MS]
    /\ ret' = [ret EXCEPT ![p] = <<>>]
    /\ pc' = [pc EXCEPT ![p] = WaitLoop(o)]
    /\ result' = [result EXCEPT ![p] = "running"]
    /\ pre' = sessionFile
    /\ UNCHANGED <<fsvars, mem, guard, attempt, stage, windows, shadow, wrote>>

\* code-review: if !session.session_file().exists() { .. }
wait_exists(p) ==
    /\ pc[p] = "wait_exists"
    /\ wait_files(p)
    /\ IF sessionFile.st # "absent"
       THEN /\ pc' = [pc EXCEPT ![p] = "wait_load"]
            /\ UNCHANGED <<result, ret>>
       ELSE /\ ret' = [ret EXCEPT ![p] = <<"absent">>]
            /\ IF should_wait_for_session(op[p])
               THEN /\ pc' = [pc EXCEPT ![p] = "wait_sleep"]
                    /\ UNCHANGED result
               ELSE /\ pc' = [pc EXCEPT ![p] = "idle"]
                    /\ result' = [result EXCEPT ![p] = "ok"]
    /\ UNCHANGED <<op, mem, guard, attempt, wait_ms, stage, windows, todo, hist>>

\* load_session(..)?, the scan, return Ok(()) unless an entry is pending
wait_load(p) ==
    /\ pc[p] = "wait_load"
    /\ wait_files(p)
    /\ ret' = [ret EXCEPT ![p] = <<sessionFile.st>>]
    /\ IF read_error(sessionFile) # "ok"
       THEN /\ pc' = [pc EXCEPT ![p] = "idle"]
            /\ result' = [result EXCEPT ![p] = read_error(sessionFile)]
            /\ UNCHANGED mem
       ELSE /\ mem' = [mem EXCEPT ![p] = sessionFile.doc]
            /\ IF has_pending(sessionFile.doc, op[p])
               THEN /\ pc' = [pc EXCEPT ![p] = "wait_sleep"]
                    /\ UNCHANGED result
               ELSE /\ pc' = [pc EXCEPT ![p] = "idle"]
                    /\ result' = [result EXCEPT ![p] = "ok"]
    /\ UNCHANGED <<op, guard, attempt, wait_ms, stage, windows, todo, hist>>

\* std::thread::sleep(delay); delay = min(delay * 2, max_delay)
wait_sleep(p) ==
    /\ pc[p] = "wait_sleep"
    /\ wait_files(p)
    /\ wait_ms' = [wait_ms EXCEPT ![p] = next_delay(@)]
    /\ pc' = [pc EXCEPT ![p] = WaitLoop(op[p])]
    /\ UNCHANGED <<op, mem, guard, attempt, stage, windows, result, ret,
                   todo, hist>>

----------------------------------------------------------------------------
(* SpecWait: a reviewer (p1) opens and closes entries while `wait` (p3)    *)
(* polls the document.  The waiter keeps running: it is a live process.    *)

Writer == "p1"
Waiter == "p3"

WaitClock == MaxWaitOps - todo + 1

WriterMenu(t) ==
    {RegisterOp(RevA, Some(Ses1), RefMain, None, t),
     RegisterOp(RevA, Some(Ses2), RefDev, None, t),
     UpdateOp(RevA, Ses1, Some("CANCELLED"), None, t)}

WaitMenu ==
    {WaitOp(tr, sid, b) :
        tr \in {None, Some(RefMain)}, sid \in {None, Some(Ses2)},
        b \in {"code-review", "apply-code-review"}}

WriterStarts == \E o \in WriterMenu(WaitClock) : Invoke(Writer, o)

WaiterStarts == \E o \in WaitMenu : wait_for_reviews(Waiter, o)

WaiterStep ==
    \/ wait_exists(Waiter)
    \/ wait_load(Waiter)
    \/ wait_sleep(Waiter)

InitWait ==
    /\ InitWith(NoLock, MaxWaitOps)
    /\ windows \in BOOLEAN

NextWait ==
    \/ WriterStarts
    \/ WaiterStarts
    \/ wait_exists(Waiter)
    \/ wait_load(Waiter)
    \/ wait_sleep(Waiter)
    \/ acquire_lock(Writer)
    \/ acquire_write_owner(Writer)
    \/ locked_mutate(Writer)
    \/ register_read(Writer)
    \/ write_tmp_open(Writer)
    \/ write_tmp_body(Writer)
    \/ write_remove_dest(Writer)
    \/ write_rename(Writer)
    \/ release_inner(Writer)
    \/ release_remove(Writer)

SpecWait == InitWait /\ [][NextWait]_vars /\ WF_vars(WaiterStep)

TerminalStatuses == {"FINISHED", "CANCELLED", "ERROR"}

\* the entries of a document the filters of the command select
Matching(doc, o) ==
    {i \in 1..Len(doc.reviews) :
        /\ o.target_filter = None \/ o.target_filter = <<doc.reviews[i].target_ref>>
        /\ o.session_id = None \/ o.session_id = <<doc.reviews[i].session_id>>}

Pending(doc, o) ==
    {i \in Matching(doc, o) : doc.reviews[i].status \notin TerminalStatuses}

WaitReturned ==
    /\ op[Waiter].kind = "wait" /\ pc[Waiter] = "idle"
    /\ result[Waiter] = "ok"

\* C23: wait returns only when the snapshot it last read has no matching
\* entry with a non-terminal status; with a snapshot of terminal entries
\* only, or of no matching entry, it returns at once, and it does not
\* return while a matching entry of the snapshot is Initializing,
\* InProgress or Blocked.
C23_WaitReturnsOnTerminalSnapshot ==
    /\ (WaitReturned /\ ret[Waiter] = <<"full">>)
          => Pending(mem[Waiter], op[Waiter]) = {}
    /\ (pc[Waiter] = "wait_sleep" /\ ret[Waiter] = <<"full">>)
          => \E i \in Pending(mem[Waiter], op[Waiter]) :
                mem[Waiter].reviews[i].status \in OpenStatuses

\* wait with a filter has returned although the document holds an open
\* entry: the entry does not match the filter
C23_Witness ==
    /\ WaitReturned /\ ret[Waiter] = <<"full">>
    /\ should_wait_for_session(op[Waiter])
    /\ Len(mem[Waiter].reviews) > 0
    /\ \E i \in 1..Len(mem[Waiter].reviews) :
          mem[Waiter].reviews[i].status \in OpenStatuses

\* wait has found a pending entry and sleeps
C23_Blocked ==
    /\ pc[Waiter] = "wait_sleep" /\ ret[Waiter] = <<"full">>
    /\ wait_ms[Waiter] > WAIT_DELAY_MS

WaitEnded == op[Waiter].kind = "wait" /\ pc[Waiter] = "idle"

\* C24: when the document does not exist, wait without filters returns
\* success at once, and wait with a filter keeps polling: it neither
\* returns nor fails.
C24_WaitOnMissingDocument ==
    /\ (WaitEnded /\ ret[Waiter] = <<"absent">>)
          => result[Waiter] = "ok" /\ ~should_wait_for_session(op[Waiter])
    /\ (pc[Waiter] = "wait_sleep" /\ ret[Waiter] = <<"absent">>)
          => should_wait_for_session(op[Waiter])

\* the same, for the copy of the loop that tests exists() first, and on a
\* build that replaces the document by one rename
C24_CodeReviewOnMissingDocument ==
    (op[Waiter].binary = "code-review" /\ ~windows)
        => C24_WaitOnMissingDocument

\* the document is there and none of its matching entries is pending
Quiet ==
    /\ sessionFile.st = "full"
    /\ Pending(sessionFile.doc, op[Waiter]) = {}

WaitRunning == op[Waiter].kind = "wait" /\ pc[Waiter] # "idle"

\* C25: once every matching entry of the document is terminal and stays
\* so, a running wait returns; and wait never returns on a snapshot with a
\* matching entry that is not terminal, however long it has slept.
C25_WaitReturnsOnceTerminal ==
    /\ (WaitRunning /\ Quiet) ~> (WaitReturned \/ ~Quiet)
    /\ [][(pc[Waiter] = "wait_load" /\ WaitReturned')
            => Pending(sessionFile.doc, op[Waiter]) = {}]_vars

\* wait has slept on a pending entry and has returned after the reviewer
\* closed it
C25_Witness ==
    /\ WaitReturned /\ ret[Waiter] = <<"full">>
    /\ wait_ms[Waiter] > WAIT_DELAY_MS
    /\ Matching(mem[Waiter], op[Waiter]) # {}

WaitLocals == <<pc[Waiter], op[Waiter], mem[Waiter], wait_ms[Waiter],
                result[Waiter], ret[Waiter]>>

\* C26: wait is a pure observer: no step of it creates or deletes the lock
\* marker or writes a file of the session directory, its next step never
\* depends on the marker, and no acquire of the writer fails.
C26_WaitIsPureObserver ==
    /\ [][WaitLocals' # WaitLocals => UNCHANGED fsvars]_vars
    /\ [](WaitRunning => ENABLED WaiterStep)
    /\ [](result[Writer] # "LockTimeout")

\* wait has returned while the writer holds the lock
C26_Witness ==
    /\ WaitReturned /\ ret[Waiter] = <<"full">>
    /\ lockFile.exists /\ HoldsLock(Writer)

----------------------------------------------------------------------------
(* session.rs: collect_reports; main.rs: handle_reports                    *)

\* `reports open|closed|in-progress` with its filters
ReportsOp(view, filters) ==
    [NoOp EXCEPT !.kind = "reports", !.view = view, !.filters = filters]

\* a view for which Blocked counts as closed
matches_status_blocked_closed(view, status) ==
    CASE view = "open" -> status \in {"INITIALIZING", "IN_PROGRESS"}
      [] view = "closed" -> is_terminal(status) \/ status = "BLOCKED"
      [] OTHER -> status = "IN_PROGRESS"

\* ReportsView::matches_status
matches_status(view, status) ==
    CASE view = "open" -> ~is_terminal(status)
      [] view = "closed" -> is_terminal(status)
      [] OTHER -> status = "IN_PROGRESS"

\* filters of which one that holds is enough
matches_any(f, entry) ==
    \/ f = NoFilters
    \/ f.target_ref # None /\ entry.target_ref = f.target_ref[1]
    \/ f.session_id # None /\ entry.session_id = f.session_id[1]
    \/ f.reviewer_id # None /\ entry.reviewer_id = f.reviewer_id[1]
    \/ Contains(f.reviewer_statuses, entry.status)
    \/ Contains(f.initiator_statuses, entry.initiator_status)
    \/ entry.verdict # None /\ Contains(f.verdicts, entry.verdict[1])
    \/ entry.current_phase # None /\ Contains(f.phases, entry.current_phase[1])
    \/ f.only_with_report /\ entry.report_file # None
    \/ f.only_with_notes /\ entry.notes # <<>>

\* ReportsFilters::matches: the first failing test returns false
matches(f, entry) ==
    IF f.target_ref # None /\ entry.target_ref # f.target_ref[1] THEN FALSE
    ELSE IF f.session_id # None /\ entry.session_id # f.session_id[1] THEN FALSE
    ELSE IF f.reviewer_id # None /\ entry.reviewer_id # f.reviewer_id[1] THEN FALSE
    ELSE IF f.reviewer_statuses # <<>>
            /\ ~Contains(f.reviewer_statuses, entry.status) THEN FALSE
    ELSE IF f.initiator_statuses # <<>>
            /\ ~Contains(f.initiator_statuses, entry.initiator_status) THEN FALSE
    ELSE IF f.verdicts # <<>>
            /\ ~(entry.verdict # None /\ Contains(f.verdicts, entry.verdict[1]))
         THEN FALSE
    ELSE IF f.phases # <<>>
            /\ ~(entry.current_phase # None
                    /\ Contains(f.phases, entry.current_phase[1]))
         THEN FALSE
    ELSE IF f.only_with_report /\ entry.report_file = None THEN FALSE
    ELSE IF f.only_with_notes /\ entry.notes = <<>> THEN FALSE
    ELSE TRUE

\* ReviewEntry::summary: the entry's fields, notes_count, notes on request
summary(entry, include_notes) ==
    [reviewer_id |-> entry.reviewer_id,
     session_id |-> entry.session_id,
     target_ref |-> entry.target_ref,
     initiator_status |-> entry.initiator_status,
     status |-> entry.status,
     parent_id |-> entry.parent_id,
     started_at |-> entry.started_at,
     updated_at |-> entry.updated_at,
     finished_at |-> entry.finished_at,
     current_phase |-> entry.current_phase,
     verdict |-> entry.verdict,
     counts |-> entry.counts,
     report_file |-> entry.report_file,
     notes_count |-> Len(entry.notes),
     notes |-> IF include_notes THEN Some(entry.notes) ELSE None]

\* for entry in &session.reviews { .. reviews.push(entry.summary(..)) }
RECURSIVE collect_from(_, _, _, _, _)
collect_from(reviews, i, view, filters, include_notes) ==
    IF i > Len(reviews)
    THEN <<>>
    ELSE (IF matches(filters, reviews[i])
             /\ matches_status(view, reviews[i].status)
          THEN <<summary(reviews[i], include_notes)>>
          ELSE <<>>)
         \o collect_from(reviews, i + 1, view, filters, include_notes)

collect_reports(session, view, filters, include_notes) ==
    LET reviews == collect_from(session.reviews, 1, view, filters, include_notes)
    IN  [view |-> view,
         filters |-> filters,
         total_reviews |-> Len(session.reviews),
         matching_reviews |-> Len(reviews),
         reviews |-> reviews]

\* handle_reports: load_session(..)?, collect_reports, write_result;
\* include_notes: args.include_notes || args.only_with_notes
handle_reports(p) ==
    /\ pc[p] = "reports"
    /\ pc' = [pc EXCEPT ![p] = "idle"]
    /\ result' = [result EXCEPT ![p] = read_error(sessionFile)]
    /\ IF read_error(sessionFile) = "ok"
       THEN /\ mem' = [mem EXCEPT ![p] = sessionFile.doc]
            /\ ret' = [ret EXCEPT ![p] =
                  <<collect_reports(sessionFile.doc, op[p].view,
                        op[p].filters, op[p].filters.only_with_notes)>>]
       ELSE UNCHANGED <<mem, ret>>
    /\ UNCHANGED <<fsvars, op, guard, attempt, wait_ms, stage, windows,
                   todo, hist>>

----------------------------------------------------------------------------
(* SpecReports: two reviewers and the applicator fill the document, then   *)
(* `reports` is asked for a view of it.                                    *)

ReportsClock == MaxReportOps - todo + 1

FillMenu(t) ==
    {RegisterOp(RevA, Some(Ses1), RefMain, None, t),
     RegisterOp(RevB, Some(Ses2), RefDev, None, t),
     UpdateOp(RevA, Ses1, Some("BLOCKED"), Some(Some("INGESTION")), t),
     UpdateOp(RevB, Ses2, Some("IN_PROGRESS"), None, t),
     FinalizeOp(RevA, Ses1, "APPROVE", Counts1, ReportText, t),
     NoteOp(RevB, Ses2, "reviewer", "question", "why", t, RevB),
     SetInitiatorOp(RevA, Ses1, "OBSERVING", t, AppA)}

Views == {"open", "closed", "in_progress"}

FilterMenu ==
    {NoFilters,
     [NoFilters EXCEPT !.target_ref = Some(RefMain)],
     [NoFilters EXCEPT !.session_id = Some(Ses2)],
     [NoFilters EXCEPT !.reviewer_id = Some(RevB)],
     [NoFilters EXCEPT !.reviewer_statuses = <<"BLOCKED", "FINISHED">>],
     [NoFilters EXCEPT !.initiator_statuses = <<"OBSERVING">>],
     [NoFilters EXCEPT !.verdicts = <<"APPROVE">>],
     [NoFilters EXCEPT !.phases = <<"INGESTION">>],
     [NoFilters EXCEPT !.only_with_report = TRUE],
     [NoFilters EXCEPT !.only_with_notes = TRUE],
     [NoFilters EXCEPT !.target_ref = Some(RefMain),
                       !.initiator_statuses = <<"REQUESTING">>],
     [NoFilters EXCEPT !.reviewer_id = Some(RevA),
                       !.reviewer_statuses = <<"INITIALIZING", "IN_PROGRESS">>,
                       !.only_with_report = TRUE]}

ReportsMenu == {ReportsOp(v, f) : v \in Views, f \in FilterMenu}

FillStarts == \E o \in FillMenu(ReportsClock) : Invoke(SeqProc, o)

ReportsStarts == \E o \in ReportsMenu : Invoke(SeqProc, o)

InitReports ==
    /\ InitWith(NoLock, MaxReportOps)
    /\ windows \in BOOLEAN

NextReports ==
    \/ FillStarts
    \/ ReportsStarts
    \/ handle_reports(SeqProc)
    \/ acquire_lock(SeqProc)
    \/ acquire_write_owner(SeqProc)
    \/ locked_mutate(SeqProc)
    \/ register_read(SeqProc)
    \/ finalize_read(SeqProc)
    \/ finalize_create_report(SeqProc)
    \/ finalize_write_report(SeqProc)
    \/ finalize_update(SeqProc)
    \/ write_tmp_open(SeqProc)
    \/ write_tmp_body(SeqProc)
    \/ write_remove_dest(SeqProc)
    \/ write_rename(SeqProc)
    \/ release_inner(SeqProc)
    \/ release_remove(SeqProc)

SpecReports == InitReports /\ [][NextReports]_vars

InView(view, status) ==
    CASE view = "open" -> status \in OpenStatuses
      [] view = "closed" -> status \in TerminalStatuses
      [] view = "in_progress" -> status = "IN_PROGRESS"

Among(set, opt) == set = <<>> \/ (opt # None /\ opt[1] \in Range(set))

\* every supplied filter holds for the entry
Satisfies(f, e) ==
    /\ f.target_ref \in {None, <<e.target_ref>>}
    /\ f.session_id \in {None, <<e.session_id>>}
    /\ f.reviewer_id \in {None, <<e.reviewer_id>>}
    /\ Among(f.reviewer_statuses, <<e.status>>)
    /\ Among(f.initiator_statuses, <<e.initiator_status>>)
    /\ Among(f.verdicts, e.verdict)
    /\ Among(f.phases, e.current_phase)
    /\ f.only_with_report => e.report_file # None
    /\ f.only_with_notes => Len(e.notes) > 0

Selected(doc, view, f) ==
    {i \in 1..Len(doc.reviews) :
        InView(view, doc.reviews[i].status) /\ Satisfies(f, doc.reviews[i])}

\* the k-th index of a set of indices, in increasing order
Nth(set, k) == CHOOSE i \in set : Cardinality({j \in set : j <= i}) = k

SameEntry(s, e) ==
    \A f \in EntryFields \ {"notes"} : s[f] = e[f]

Keys(reviews) == {EntryKey(reviews[k]) : k \in 1..Len(reviews)}

\* C27: collect-reports returns exactly the entries, in document order,
\* whose status is in the view and that satisfy every supplied filter;
\* Open and Closed partition the entries, InProgress is part of Open,
\* matching_reviews counts the entries returned, total_reviews those of
\* the document, and the document is as it was.
C27_ReportsSelectByViewAndFilters ==
    (Returned("reports") /\ result[SeqProc] = "ok")
    => LET doc == mem[SeqProc]
           o == op[SeqProc]
           r == ret[SeqProc][1]
           sel == Selected(doc, o.view, o.filters)
           of(v) == collect_reports(doc, v, o.filters, FALSE).reviews
       IN  /\ r.total_reviews = Len(doc.reviews)
           /\ r.matching_reviews = Len(r.reviews)
           /\ Len(r.reviews) = Cardinality(sel)
           /\ \A k \in 1..Len(r.reviews) :
                 SameEntry(r.reviews[k], doc.reviews[Nth(sel, k)])
           /\ Keys(of("open")) \cap Keys(of("closed")) = {}
           /\ Keys(of("open")) \cup Keys(of("closed")) =
                 {EntryKey(doc.reviews[i]) :
                     i \in {j \in 1..Len(doc.reviews) :
                               Satisfies(o.filters, doc.reviews[j])}}
           /\ Keys(of("in_progress")) \subseteq Keys(of("open"))
           /\ sessionFile = pre
           /\ sessionFile = Full(doc)

\* a filtered view of a document with a blocked and a running entry has
\* returned one of the two
C27_Witness ==
    /\ Returned("reports") /\ result[SeqProc] = "ok"
    /\ op[SeqProc].view = "open" /\ op[SeqProc].filters # NoFilters
    /\ Len(mem[SeqProc].reviews) = 2
    /\ mem[SeqProc].reviews[1].status = "BLOCKED"
    /\ ret[SeqProc][1].matching_reviews = 1
    /\ ret[SeqProc][1].reviews[1].status = "BLOCKED"

----------------------------------------------------------------------------
(* SpecBackoff: `lock acquire --max-retries N` (p1) meets a marker that a  *)
(* holder (p2) creates and removes, or one that was left behind; a         *)
(* reviewer's document from an earlier run may be there.                   *)

Acquirer == "p1"

BackoffMenu(p) ==
    IF p = Acquirer
    THEN {LockAcquireOp(Token(p), r) : r \in 0..MaxBackoffRetries}
            \cup {LockReleaseOp(Token(p))}
    ELSE {LockAcquireOp(Token(p), 0), LockReleaseOp(Token(p))}

BackoffStart(p) == \E o \in BackoffMenu(p) : Invoke(p, o)

InitBackoff ==
    /\ \E lock \in {NoLock, LockWith(writeln(Hex1))} :
          InitWith(lock, MaxBackoffOps)
    /\ windows = FALSE

NextBackoff ==
    \E p \in {Acquirer, Holder} :
        \/ BackoffStart(p)
        \/ acquire_lock(p)
        \/ acquire_write_owner(p)
        \/ release_inner(p)
        \/ release_remove(p)

SpecBackoff == InitBackoff /\ [][NextBackoff]_vars

\* the process makes an attempt: it leaves the loop or counts a retry
Attempts(p) ==
    /\ pc[p] = "acquire"
    /\ pc'[p] # "acquire" \/ attempt'[p] # attempt[p]

\* C29: acquire terminates: while the marker stays, the attempts are
\* counted up to maxRetries, the attempt after the last sleep fails with
\* LockTimeout, and no failed attempt changes the marker or the document;
\* the first attempt that finds no marker creates it.
C29_AcquireTerminates ==
    /\ [](\A p \in Procs :
            pc[p] = "acquire" => attempt[p] <= op[p].max_retries)
    /\ [][\A p \in Procs : Attempts(p) =>
            IF lockFile.exists
            THEN /\ lockFile' = lockFile /\ sessionFile' = sessionFile
                 /\ IF attempt[p] = op[p].max_retries
                    THEN result'[p] = "LockTimeout" /\ pc'[p] = "idle"
                    ELSE /\ pc'[p] = "acquire"
                         /\ attempt'[p] = attempt[p] + 1
                         /\ result'[p] = "running"
            ELSE /\ pc'[p] = "write_owner" /\ lockFile'.exists
                 /\ result'[p] = "running"]_vars

\* acquire with the largest retry budget has timed out on a marker that
\* another owner left
C29_Witness ==
    /\ pc[Acquirer] = "idle" /\ op[Acquirer].kind = "lock_acquire"
    /\ op[Acquirer].max_retries = MaxBackoffRetries
    /\ result[Acquirer] = "LockTimeout"
    /\ lockFile.exists /\ ~MarkerOf(Token(Acquirer))

\* C30: the sleep before the k-th retry lasts min(100 * 2^(k-1), 6400) ms:
\* 100, 200, 400, 800, 1600, 3200, 6400, 6400, ..; it never exceeds
\* 6400 ms, and its double stays far inside a u64.
C30_BackoffSchedule ==
    \A p \in Procs :
        pc[p] = "acquire" =>
            /\ wait_ms[p] = Min(100 * 2 ^ attempt[p], 6400)
            /\ wait_ms[p] <= 6400
            /\ 2 * wait_ms[p] <= 12800

\* the eighth sleep is due: the backoff has been at its cap for one retry
C30_Witness ==
    /\ pc[Acquirer] = "acquire" /\ attempt[Acquirer] = 7
    /\ wait_ms[Acquirer] = 6400
    /\ lockFile.exists

----------------------------------------------------------------------------
(* SpecSanitize: sanitize_ref applied to target refs: short ones, the ones *)
(* of the unit test, and ones around the length cap.                       *)

Pad(n) == [i \in 1..n |-> "x"]

RefHeads == {<<>>, <<"_">>, <<"/", "_">>}
RefTails == {<<>>, <<"_">>, <<"/">>, <<"/", "b">>, <<".">>, <<"-", "+">>}

RefsHeadsMain ==
    <<"r", "e", "f", "s", "/", "h", "e", "a", "d", "s", "/", "m", "a", "i", "n">>

RefInputs ==
    {h \o Pad(n) \o t : h \in RefHeads, n \in 0..MaxRefPad, t \in RefTails}
        \cup {RefsHeadsMain, <<"_", "_", "_">>,
              <<"a", ".", "b", "-", "c", "_", "d">>}

SanitizeOp(input) == [NoOp EXCEPT !.kind = "sanitize", !.target_ref = input]

\* a caller names a report: sanitize_ref(target_ref)
sanitize(p) ==
    /\ pc[p] = "idle"
    /\ todo > 0
    /\ todo' = todo - 1
    /\ \E input \in RefInputs :
          /\ op' = [op EXCEPT ![p] = SanitizeOp(input)]
          /\ ret' = [ret EXCEPT ![p] = <<sanitize_ref(input)>>]
    /\ result' = [result EXCEPT ![p] = "ok"]
    /\ UNCHANGED <<fsvars, pc, mem, guard, attempt, wait_ms, stage, windows,
                   hist>>

InitSanitize ==
    /\ InitWith(NoLock, 1)
    /\ windows = FALSE

NextSanitize == sanitize(SeqProc)

SpecSanitize == InitSanitize /\ [][NextSanitize]_vars

Sanitized == op[SeqProc].kind = "sanitize"

RefChars == Digits \cup Letters \cup {".", "-", "_"}

\* the result is a name of at most 64 characters over the allowed alphabet
RefShape(out) ==
    /\ out # <<>>
    /\ Len(out) <= 64
    /\ \A i \in 1..Len(out) : out[i] \in RefChars

\* C31: the sanitized ref is non-empty, at most 64 characters long, made
\* of ASCII alphanumerics and '.', '-', '_' only, and neither starts nor
\* ends with '_'; an input with no surviving character gives "ref", and
\* "refs/heads/main" gives "refs_heads_main".
C31_SanitizedRef ==
    Sanitized =>
        LET input == op[SeqProc].target_ref
            out == ret[SeqProc][1]
        IN  /\ RefShape(out)
            /\ out[1] # "_" /\ out[Len(out)] # "_"
            /\ (\A i \in 1..Len(input) : input[i] \notin RefChars \ {"_"})
                  => out = <<"r", "e", "f">>
            /\ input = RefsHeadsMain
                  => out = <<"r", "e", "f", "s", "_", "h", "e", "a", "d", "s",
                             "_", "m", "a", "i", "n">>

\* what holds of every result: the shape, no leading underscore, and a
\* trailing one only where the cap has cut the name
C31_SanitizedRefUpToTheCap ==
    Sanitized =>
        LET out == ret[SeqProc][1]
        IN  /\ RefShape(out)
            /\ out[1] # "_"
            /\ out[Len(out)] = "_" => Len(out) = 64

----------------------------------------------------------------------------
(* SpecDrop: a guard is released explicitly (LockGuard::release, or the    *)
(* guard that release_lock builds) and dropped at the end of its scope,    *)
(* while a process with the same token (p2) and one with another token     *)
(* (p3) acquire and release.  stage = 2 marks the pass made by the drop.   *)

Releaser == "p1"

DropToken(p) == IF p = "p3" THEN RevB ELSE RevA

DropMenu(p) ==
    IF p = Releaser
    THEN {LockReleaseOp(DropToken(p))}
    ELSE {LockAcquireOp(DropToken(p), 0), LockReleaseOp(DropToken(p))}

DropStart(p) == \E o \in DropMenu(p) : Invoke(p, o)

\* impl Drop for LockGuard: release_inner once more, at the end of the scope
drop(p) ==
    /\ pc[p] = "idle"
    /\ op[p].kind = "lock_release"
    /\ stage[p] = 1
    /\ pc' = [pc EXCEPT ![p] = "rel_read"]
    /\ stage' = [stage EXCEPT ![p] = 2]
    /\ UNCHANGED <<fsvars, op, mem, guard, attempt, wait_ms, windows, result,
                   ret, todo, hist>>

InitDrop ==
    /\ \E lock \in {NoLock, LockWith(writeln(RevA))} :
          InitWith(lock, MaxDropOps)
    /\ windows = FALSE

NextDrop ==
    \E p \in Procs :
        \/ DropStart(p)
        \/ drop(p)
        \/ acquire_lock(p)
        \/ acquire_write_owner(p)
        \/ release_inner(p)
        \/ release_remove(p)

SpecDrop == InitDrop /\ [][NextDrop]_vars

Dropping(p) == op[p].kind = "lock_release" /\ stage[p] = 2

\* C34: once a guard has been released explicitly, its release at the end
\* of the scope does nothing: it never comes to the removal and no step of
\* it changes the marker, also when another process, with the same token
\* or another one, has acquired the lock meanwhile.
C34_DropAfterReleaseIsNoOp ==
    /\ [](\A p \in Procs : Dropping(p) => pc[p] \in {"rel_read", "idle"})
    /\ [][\A p \in Procs :
            (Dropping(p) /\ pc[p] = "rel_read" /\ pc'[p] # "rel_read")
                => pc'[p] = "idle" /\ lockFile' = lockFile]_vars

\* the released guard has been dropped while the marker of a second
\* process with the same token is in place
C34_Witness ==
    /\ Dropping(Releaser) /\ pc[Releaser] = "idle"
    /\ MarkerOf(DropToken(Releaser))
    /\ op["p2"].kind = "lock_acquire" /\ result["p2"] = "ok"
    /\ pc["p2"] = "idle"

\* the same, with the marker of another token in place
C34_OtherToken ==
    /\ Dropping(Releaser) /\ pc[Releaser] = "idle"
    /\ MarkerOf(DropToken("p3"))

----------------------------------------------------------------------------
(* SpecMeet: two reviewers (p1 as RevA, p2 as RevB) register for the same  *)
(* target without a session id at the same time.  Before that p3 may have  *)
(* opened, and closed, a session for the target.                           *)

Meeting == {"p1", "p2"}

MeetReviewer(p) == IF p = "p1" THEN RevA ELSE RevB

MeetNow(p) == IF p = "p1" THEN 2 ELSE 3

Started(p) == op[p].kind # NoOp.kind

\* what p3 runs before the two meet: a registration, then its cancellation
PrepareStart ==
    /\ \A q \in Meeting : ~Started(q)
    /\ IF ~Started("p3")
       THEN Invoke("p3", RegisterOp(RevB, Some(Ses1), RefMain, None, 1))
       ELSE /\ op["p3"].kind = "register"
            /\ Invoke("p3", UpdateOp(RevB, Ses1, Some("CANCELLED"), None, 1))

MeetStart(p) ==
    /\ ~Started(p)
    /\ pc["p3"] = "idle"
    /\ Invoke(p, RegisterOp(MeetReviewer(p), None, RefMain, None, MeetNow(p)))

InitMeet ==
    /\ InitWith(NoLock, MaxMeetOps)
    /\ windows \in BOOLEAN

NextMeet ==
    \/ PrepareStart
    \/ \E p \in Meeting : MeetStart(p)
    \/ \E p \in Procs :
        \/ acquire_lock(p)
        \/ acquire_write_owner(p)
        \/ locked_mutate(p)
        \/ register_read(p)
        \/ write_tmp_open(p)
        \/ write_tmp_body(p)
        \/ write_remove_dest(p)
        \/ write_rename(p)
        \/ release_inner(p)
        \/ release_remove(p)

SpecMeet == InitMeet /\ [][NextMeet]_vars

Registered(p) == Started(p) /\ pc[p] = "idle" /\ result[p] = "ok"

BothRegistered == \A p \in Meeting : Registered(p)

\* the entries of the stored document with the given reviewer and session
EntriesOf(reviewer_id, session_id) ==
    {i \in 1..Len(sessionFile.doc.reviews) :
        /\ sessionFile.doc.reviews[i].reviewer_id = reviewer_id
        /\ sessionFile.doc.reviews[i].session_id = session_id}

\* C38: two registrations for the same target, without a session id and
\* for different reviewers, that run at the same time and both succeed
\* return the same session id, and the stored document has one entry of
\* each reviewer under that session id.
C38_RacingRegistersShareSession ==
    BothRegistered =>
        /\ ret["p1"][2] = ret["p2"][2]
        /\ sessionFile.st = "full"
        /\ \A p \in Meeting :
              Cardinality(EntriesOf(MeetReviewer(p), ret[p][2])) = 1

\* both have registered after the earlier session for the target was closed
C38_Witness ==
    /\ BothRegistered
    /\ sessionFile.st = "full"
    /\ Len(sessionFile.doc.reviews) = 3
    /\ sessionFile.doc.reviews[1].status = "CANCELLED"
    /\ ret["p1"][2] # Ses1

----------------------------------------------------------------------------
(* SpecSame: three processes act for the same reviewer RevA at the same    *)
(* time with register, update, finalize and append-note: all of them ask   *)
(* for the lock with the token RevA.                                       *)

SameNow(p) == CASE p = "p1" -> 1 [] p = "p2" -> 2 [] OTHER -> 3

SameMenu(t) ==
    {RegisterOp(RevA, Some(Ses1), RefMain, None, t),
     UpdateOp(RevA, Ses1, Some("IN_PROGRESS"), None, t),
     NoteOp(RevA, Ses1, "reviewer", "question", "why", t, RevA),
     FinalizeOp(RevA, Ses1, "APPROVE", Counts1, ReportText, t)}

\* p3 only appends notes
SameStart(p) ==
    \E o \in SameMenu(SameNow(p)) :
        /\ p = "p3" => o.kind = "note"
        /\ Invoke(p, o)

InitSame ==
    /\ InitWith(NoLock, MaxSameOps)
    /\ windows \in BOOLEAN

NextSame ==
    \E p \in Procs :
        \/ SameStart(p)
        \/ acquire_lock(p)
        \/ acquire_write_owner(p)
        \/ locked_mutate(p)
        \/ register_read(p)
        \/ finalize_read(p)
        \/ finalize_create_report(p)
        \/ finalize_write_report(p)
        \/ finalize_update(p)
        \/ write_tmp_open(p)
        \/ write_tmp_body(p)
        \/ write_remove_dest(p)
        \/ write_rename(p)
        \/ release_inner(p)
        \/ release_remove(p)

SpecSame == InitSame /\ [][NextSame]_vars

\* between the exclusive create and the end of the guard's release
InCriticalSection(p) ==
    \/ pc[p] \in LockedPcs
    \/ pc[p] = "rel_read" /\ guard[p]

TimesOut(p) == result[p] # "LockTimeout" /\ result'[p] = "LockTimeout"

\* C39: calls that carry the same owner token exclude each other: at most
\* one of them is inside its critical section at a time, the marker is
\* there as long as one is, only the call inside its critical section
\* removes the marker, and a call that times out leaves the marker of the
\* holder in place.
C39_SameTokenMutualExclusion ==
    /\ [](\A p, q \in Procs :
             p # q => ~(InCriticalSection(p) /\ InCriticalSection(q)))
    /\ [](\A p \in Procs : InCriticalSection(p) => lockFile.exists)
    /\ [][\A p \in Procs :
            /\ (lockFile.exists /\ ~lockFile'.exists /\ pc'[p] # pc[p])
                  => pc[p] = "rel_remove"
            /\ TimesOut(p) =>
                  /\ lockFile' = lockFile
                  /\ pc'[p] = "idle"
                  /\ \E q \in Procs \ {p} : InCriticalSection(q)]_vars

\* one call has timed out while another holds the lock and a third waits
C39_Witness ==
    \E p, q, r \in Procs :
        /\ p # q /\ q # r /\ p # r
        /\ result[p] = "LockTimeout" /\ pc[p] = "idle"
        /\ pc[q] \in WritePcs /\ MarkerOf(RevA)
        /\ pc[r] = "acquire" /\ attempt[r] > 0

----------------------------------------------------------------------------
(* SpecLate: reviewer RevA registers and finalizes (p1); a second process  *)
(* of the reviewer (p2) starts an update once finalize has passed step 1   *)
(* and has not yet stored step 3.                                          *)

Finisher == "p1"

Intervener == "p2"

FinisherStart ==
    IF op[Finisher].kind = "register" /\ result[Finisher] = "ok"
    THEN Invoke(Finisher, FinalizeOp(RevA, Ses1, "APPROVE", Counts1,
                                     ReportText, 1))
    ELSE /\ op[Finisher].kind # "finalize"
         /\ Invoke(Finisher, RegisterOp(RevA, Some(Ses1), RefMain, None, 1))

\* finalize is past step 1 and step 3 has not read the document yet
PastStep1(p) ==
    /\ op[p].kind = "finalize"
    /\ \/ pc[p] \in {"fin_create", "fin_write", "fin_update"}
       \/ pc[p] \in {"acquire", "write_owner"} /\ stage[p] = 3

LateMenu ==
    {UpdateOp(RevA, Ses1, Some("CANCELLED"), None, 2),
     UpdateOp(RevA, Ses1, Some("BLOCKED"), Some(Some("INGESTION")), 2),
     UpdateOp(RevA, Ses1, None, Some(None), 2)}

IntervenerStart ==
    /\ PastStep1(Finisher)
    /\ \E o \in LateMenu : Invoke(Intervener, o)

InitLate ==
    /\ InitWith(NoLock, MaxLateOps)
    /\ windows \in BOOLEAN

NextLate ==
    \/ FinisherStart
    \/ IntervenerStart
    \/ \E p \in {Finisher, Intervener} :
        \/ acquire_lock(p)
        \/ acquire_write_owner(p)
        \/ locked_mutate(p)
        \/ register_read(p)
        \/ finalize_read(p)
        \/ finalize_create_report(p)
        \/ finalize_write_report(p)
        \/ finalize_update(p)
        \/ write_tmp_open(p)
        \/ write_tmp_body(p)
        \/ write_remove_dest(p)
        \/ write_rename(p)
        \/ release_inner(p)
        \/ release_remove(p)

SpecLate == InitLate /\ [][NextLate]_vars

\* the reviewer's entry in the stored document (there is at most one)
TheEntry == sessionFile.doc.reviews[1]

\* C40: step 3 of finalize does not look at the entry's status: whatever
\* an update has stored since step 1, step 3 goes on to its write when it
\* finds the entry, finalize ends with ok unless it is refused the lock,
\* and the document it stores has the entry with status Finished and
\* current_phase ReportWriting in place of what the update had stored.
C40_FinalizeOverwritesLateUpdate ==
    /\ [](PastStep1(Finisher) => result[Finisher] = "running")
    /\ []((op[Finisher].kind = "finalize" /\ stage[Finisher] = 3)
             => result[Finisher] \in {"running", "ok", "LockTimeout"})
    /\ [][/\ (pc[Finisher] = "fin_update" /\ pc'[Finisher] # "fin_update"
              /\ sessionFile.st = "full")
                => pc'[Finisher] = "wr_trunc"
          /\ (op[Finisher].kind = "finalize" /\ Commits(Finisher))
                => /\ sessionFile'.st = "full"
                   /\ sessionFile'.doc.reviews[1].status = "FINISHED"
                   /\ sessionFile'.doc.reviews[1].current_phase
                         = Some("REPORT_WRITING")]_vars

\* finalize has ended with ok over an update to Cancelled that cut in
C40_Witness ==
    /\ op[Finisher].kind = "finalize" /\ pc[Finisher] = "idle"
    /\ result[Finisher] = "ok"
    /\ op[Intervener].status = Some("CANCELLED")
    /\ pc[Intervener] = "idle" /\ result[Intervener] = "ok"
    /\ sessionFile.st = "full"
    /\ TheEntry.status = "FINISHED"
    /\ TheEntry.current_phase = Some("REPORT_WRITING")

=============================================================================
